---- MODULE Spec2Model ----
(***************************************************************************)
(* Model of the incremental reconciliation engine of raindrop-sync-chrome  *)
(* (ChromeBookmarkRepository, src/unnamed/part_001) together with the      *)
(* URL normalisation it is specified to join on.                           *)
(*                                                                         *)
(* The remote service (Raindrop) and the destination store                 *)
(* (chrome.bookmarks, chrome.storage.local) are external collaborators:    *)
(* they are modelled by the state they hold and by the calls the code      *)
(* makes on them, each of which may throw.                                 *)
(***************************************************************************)
EXTENDS Integers, Sequences, FiniteSets, TLC

(***************************************************************************)
(* Bounds of the model.                                                    *)
(***************************************************************************)
MaxRaindrops == 2      \* items the remote holds at most
MaxRuns      == 2      \* incrementalSync calls per behaviour
MaxFaults    == 1      \* external calls that throw per behaviour
MaxChanges   == 1      \* remote edits per behaviour
MaxLen       == 4      \* length of the strings normalizeUrl is applied to
MaxNodes     == 3      \* length of the flat lists createTree is applied to
MaxStarts    == 4      \* startBrowserChangeListener calls per behaviour

(***************************************************************************)
(* Strings are sequences of characters.                                    *)
(***************************************************************************)
SP == " "
BS == "\\"
SL == "/"
Alphabet == {SP, BS, SL, "a"}

RECURSIVE StringsUpTo(_)
StringsUpTo(n) ==
    IF n = 0 THEN {<<>>}
    ELSE LET S == StringsUpTo(n - 1)
         IN  S \cup {Append(s, c) : s \in {t \in S : Len(t) = n - 1}, c \in Alphabet}

(***************************************************************************)
(* normalizeUrl: trim, strip one trailing slash, escape backslashes, then  *)
(* escape slashes, each a pass over the result of the one before.          *)
(***************************************************************************)
RECURSIVE trimStart(_)
trimStart(s) ==
    IF s # <<>> /\ Head(s) = SP THEN trimStart(Tail(s)) ELSE s

RECURSIVE trimEnd(_)
trimEnd(s) ==
    IF s # <<>> /\ s[Len(s)] = SP THEN trimEnd(SubSeq(s, 1, Len(s) - 1)) ELSE s

trim(s) == trimEnd(trimStart(s))

stripTrailingSlash(s) ==
    IF s # <<>> /\ s[Len(s)] = SL THEN SubSeq(s, 1, Len(s) - 1) ELSE s

RECURSIVE replaceAll(_, _, _)
replaceAll(s, c, by) ==
    IF s = <<>> THEN <<>>
    ELSE (IF Head(s) = c THEN by ELSE <<Head(s)>>) \o replaceAll(Tail(s), c, by)

normalizeUrl_SlashFirst(url) ==
    replaceAll(replaceAll(stripTrailingSlash(trim(url)), SL, <<BS, SL>>), BS, <<BS, BS>>)

normalizeUrl(url) ==
    replaceAll(replaceAll(stripTrailingSlash(trim(url)), BS, <<BS, BS>>), SL, <<BS, SL>>)

\* the cases of the repository's test of normalizeUrl, character by character
normalizeUrlTests == {
    [url |-> <<" ", " ", " ", "h", "t", "t", "p", ":", "/", "/", "e", "x", "a", "m", "p", "l", "e", ".", "c", "o", "m", "/", "p", "a", "t", "h", "/", " ", " ", " ">>,
     expected |-> <<"h", "t", "t", "p", ":", "\\", "/", "\\", "/", "e", "x", "a", "m", "p", "l", "e", ".", "c", "o", "m", "\\", "/", "p", "a", "t", "h">>],
    [url |-> <<"h", "t", "t", "p", ":", "/", "/", "e", "x", "a", "m", "p", "l", "e", ".", "c", "o", "m", "/", "p", "a", "t", "h", "/">>,
     expected |-> <<"h", "t", "t", "p", ":", "\\", "/", "\\", "/", "e", "x", "a", "m", "p", "l", "e", ".", "c", "o", "m", "\\", "/", "p", "a", "t", "h">>],
    [url |-> <<"h", "t", "t", "p", ":", "/", "/", "e", "x", "a", "m", "p", "l", "e", ".", "c", "o", "m", "\\", "p", "a", "t", "h", "\\", "t", "o", "\\", "r", "e", "s", "o", "u", "r", "c", "e">>,
     expected |-> <<"h", "t", "t", "p", ":", "\\", "/", "\\", "/", "e", "x", "a", "m", "p", "l", "e", ".", "c", "o", "m", "\\", "\\", "p", "a", "t", "h", "\\", "\\", "t", "o", "\\", "\\", "r", "e", "s", "o", "u", "r", "c", "e">>],
    [url |-> <<"h", "t", "t", "p", ":", "/", "/", "e", "x", "a", "m", "p", "l", "e", ".", "c", "o", "m", "/", "p", "a", "t", "h", "/", "t", "o", "/", "r", "e", "s", "o", "u", "r", "c", "e">>,
     expected |-> <<"h", "t", "t", "p", ":", "\\", "/", "\\", "/", "e", "x", "a", "m", "p", "l", "e", ".", "c", "o", "m", "\\", "/", "p", "a", "t", "h", "\\", "/", "t", "o", "\\", "/", "r", "e", "s", "o", "u", "r", "c", "e">>],
    [url |-> <<" ", " ", " ", "h", "t", "t", "p", ":", "/", "/", "e", "x", "a", "m", "p", "l", "e", ".", "c", "o", "m", "/", "p", "a", "t", "h", "/", "t", "o", "/", "r", "e", "s", "o", "u", "r", "c", "e", "/", "w", "i", "t", "h", "\\", "b", "a", "c", "k", "s", "l", "a", "s", "h", "e", "s", "/", " ", " ", " ">>,
     expected |-> <<"h", "t", "t", "p", ":", "\\", "/", "\\", "/", "e", "x", "a", "m", "p", "l", "e", ".", "c", "o", "m", "\\", "/", "p", "a", "t", "h", "\\", "/", "t", "o", "\\", "/", "r", "e", "s", "o", "u", "r", "c", "e", "\\", "/", "w", "i", "t", "h", "\\", "\\", "b", "a", "c", "k", "s", "l", "a", "s", "h", "e", "s">>] }

\* the normalisation as modelled passes the repository's test
NormalizeUrlTestsPass ==
    \A t \in normalizeUrlTests : normalizeUrl(t.url) = t.expected

(***************************************************************************)
(* Values of the sync model.                                               *)
(***************************************************************************)
Urls   == {<<"a">>, <<"a", "/">>}          \* raindrop links
UrlOrder == <<(<<"a">>), (<<"a", "/">>)>>  \* iteration order of a URL-keyed Map
Titles == {"t1", "t2"}                     \* raindrop titles
UNSORTED_ID == -1
CollectionIds == {UNSORTED_ID, 1, 2}

NoUrl    == <<>>      \* BookmarkTreeNode.url of a folder
NoParent == -1        \* BookmarkTreeNode.parentId of the root
RootId   == 0         \* the browser's bookmark root
BaseId   == 1         \* opts.baseFolder.id, the managed destination root
OtherId  == 2         \* a folder of the user outside the managed root
UserItemId == 3       \* a bookmark of the user in that folder
UnsortedTitle == "Unsorted folder"

\* a parentId that is set
Truthy(parentId) == parentId # NoParent

NullData == [null |-> TRUE, _id |-> 0, title |-> ""]
Coll(i, t) == [null |-> FALSE, _id |-> i, title |-> t]

\* opts.tree: node 1 is the root; data and children by node.
Trees == {
    \* the whole collection tree under its null root, nested collections
    [data |-> <<NullData, Coll(1, "A"), Coll(2, "B")>>,
     children |-> <<(<<2>>), (<<3>>), (<<>>)>>],
    \* the whole tree, sibling collections, one of them without a title
    [data |-> <<NullData, Coll(1, "A"), Coll(2, "")>>,
     children |-> <<(<<2, 3>>), (<<>>), (<<>>)>>],
    \* a tree rooted at a collection
    [data |-> <<Coll(1, "A"), Coll(2, "B")>>,
     children |-> <<(<<2>>), (<<>>)>>] }

EmptyMap == <<>>
Put(m, k, v) == [x \in (DOMAIN m) \cup {k} |-> IF x = k THEN v ELSE m[x]]
Has(m, k) == k \in DOMAIN m

RECURSIVE SetToSeq(_)
SetToSeq(S) ==
    IF S = {} THEN <<>>
    ELSE LET m == CHOOSE x \in S : \A y \in S : x <= y
         IN  <<m>> \o SetToSeq(S \ {m})

RECURSIVE SeqsUpTo(_, _)
SeqsUpTo(S, n) ==
    IF n = 0 THEN {<<>>}
    ELSE LET R == SeqsUpTo(S, n - 1)
         IN  R \cup {Append(s, x) : s \in {t \in R : Len(t) = n - 1}, x \in S}

Raindrop == [link : Urls, title : Titles, collectionId : CollectionIds]
ZeroStats == [added |-> 0, updated |-> 0, deleted |-> 0, unchanged |-> 0]

(***************************************************************************)
(* The persisted blob.  saveSyncState turns the two Maps into plain        *)
(* objects (property names are strings) and the Date into its ISO string;  *)
(* loadSyncState turns them back with Object.entries, parseInt and Date.   *)
(***************************************************************************)
Digits == <<"0", "1", "2", "3", "4", "5", "6", "7", "8", "9">>

RECURSIVE NatToString(_)
NatToString(n) ==
    IF n < 10 THEN <<Digits[n + 1]>>
    ELSE Append(NatToString(n \div 10), Digits[(n % 10) + 1])

\* String(n): the property name Object.fromEntries gives a number key
NumberToString(n) == IF n < 0 THEN <<"-">> \o NatToString(-n) ELSE NatToString(n)

DigitValue(c) == (CHOOSE i \in 1..10 : Digits[i] = c) - 1
IsDigit(c) == \E i \in 1..10 : Digits[i] = c

RECURSIVE ParseDigits(_, _)
ParseDigits(s, acc) ==
    IF s = <<>> \/ ~IsDigit(Head(s)) THEN acc
    ELSE ParseDigits(Tail(s), acc * 10 + DigitValue(Head(s)))

\* a variant that reads the digits and drops the sign
parseInt_Unsigned(s) ==
    IF s # <<>> /\ Head(s) = "-" THEN ParseDigits(Tail(s), 0)
    ELSE ParseDigits(s, 0)

\* parseInt(k) of a property name written by NumberToString
parseInt(s) ==
    IF s # <<>> /\ Head(s) = "-" THEN 0 - ParseDigits(Tail(s), 0)
    ELSE ParseDigits(s, 0)

\* Date.prototype.toISOString and new Date(iso); an instant is its count of ticks
toISOString(d) == <<"T">> \o NatToString(d)
newDate(iso) == ParseDigits(Tail(iso), 0)

NoState == [bookmarks |-> EmptyMap, collectionFolders |-> EmptyMap, lastSync |-> 0]
NoBlob  == [bookmarks |-> EmptyMap, collectionFolders |-> EmptyMap, lastSync |-> <<>>]
NoStorage == [present |-> FALSE, syncState |-> NoBlob]

\* the object saveSyncState hands to chrome.storage.local.set
ToBlob(state) ==
    [bookmarks |-> state.bookmarks,
     collectionFolders |->
        [k \in {NumberToString(i) : i \in DOMAIN state.collectionFolders} |->
            state.collectionFolders[CHOOSE i \in DOMAIN state.collectionFolders :
                                        NumberToString(i) = k]],
     lastSync |-> toISOString(state.lastSync)]

\* the SyncState loadSyncState builds from the stored object
FromBlob(blob) ==
    [bookmarks |-> blob.bookmarks,
     collectionFolders |->
        [i \in {parseInt(k) : k \in DOMAIN blob.collectionFolders} |->
            blob.collectionFolders[CHOOSE k \in DOMAIN blob.collectionFolders :
                                        parseInt(k) = i]],
     lastSync |-> newDate(blob.lastSync)]

(***************************************************************************)
(* The diff engine.  A tree is its nodes' data and children, node 1 the    *)
(* root; a node of the diff carries the capabilities the engine reads:     *)
(* hash (the key), name and url (no url on a folder).                      *)
(***************************************************************************)
DiffHashes == {"h1", "h2"}
DiffNames  == {"n1", "n2"}
DiffUrls   == {<<>>, <<"a">>}        \* <<>>: getUrl() is null, a folder
DiffData   == [hash : DiffHashes, name : DiffNames, url : DiffUrls]
DiffRoots  == [hash : {"h0"}, name : DiffNames, url : {<<>>}]

\* the trees compared: a root folder with no node, one node, two siblings, or
\* a node and its child
DiffTrees ==
    {[data |-> <<r>>, children |-> <<(<<>>)>>] : r \in DiffRoots}
    \cup {[data |-> <<r, a>>, children |-> <<(<<2>>), (<<>>)>>] :
            r \in DiffRoots, a \in DiffData}
    \cup {[data |-> <<r, a, b>>, children |-> <<(<<2, 3>>), (<<>>), (<<>>)>>] :
            r \in DiffRoots, a \in DiffData, b \in DiffData}
    \cup {[data |-> <<r, a, b>>, children |-> <<(<<2>>), (<<3>>), (<<>>)>>] :
            r \in DiffRoots, a \in [hash : DiffHashes, name : DiffNames, url : {<<>>}],
            b \in DiffData}

\* the nodes of the subtree at n, in traversal order (a node before its children)
RECURSIVE flattenSeveral(_, _)
RECURSIVE flattenTree(_, _)
flattenTree(t, n) == <<n>> \o flattenSeveral(t, t.children[n])
flattenSeveral(t, ns) ==
    IF ns = <<>> THEN <<>> ELSE flattenTree(t, Head(ns)) \o flattenSeveral(t, Tail(ns))

keyOf(t, n) == t.data[n].hash

\* a variant in which a later node with the same key replaces the earlier one
RECURSIVE toMap_Overwriting(_, _, _, _)
toMap_Overwriting(t, order, m, extras) ==
    IF order = <<>> THEN [map |-> m, extras |-> extras]
    ELSE toMap_Overwriting(t, Tail(order),
            [k \in (DOMAIN m) \cup {keyOf(t, Head(order))} |->
                IF k = keyOf(t, Head(order)) THEN Head(order) ELSE m[k]],
            extras)

\* the flattened tree as a map by key: the first node met with a key takes
\* the key, the later ones are set aside as extras
RECURSIVE toMap(_, _, _, _)
toMap(t, order, m, extras) ==
    IF order = <<>> THEN [map |-> m, extras |-> extras]
    ELSE IF keyOf(t, Head(order)) \in DOMAIN m
         THEN toMap(t, Tail(order), m, Append(extras, Head(order)))
         ELSE toMap(t, Tail(order),
                [k \in (DOMAIN m) \cup {keyOf(t, Head(order))} |->
                    IF k = keyOf(t, Head(order)) THEN Head(order) ELSE m[k]],
                extras)

\* a variant that takes the url of the right node for its name
sameAttributes_UrlForName(l, r, p) ==
    /\ l.data[p.left].name = r.data[p.right].name
    /\ l.data[p.left].url = <<r.data[p.right].name>>

\* the mutable attributes of a matched pair agree: name, and url or folder-ness
sameAttributes(l, r, p) ==
    /\ l.data[p.left].name = r.data[p.right].name
    /\ l.data[p.left].url = r.data[p.right].url

\* the keyed nodes of one side that the other side has no key for, then the extras
onlyIn(t, order, mine, theirs) ==
    SelectSeq(order, LAMBDA n : mine.map[keyOf(t, n)] = n
                                /\ keyOf(t, n) \notin DOMAIN theirs.map)
        \o mine.extras

\* computeDiff(left, right)
computeDiff(l, r) ==
    LET lo == flattenTree(l, 1)
        ro == flattenTree(r, 1)
        L  == toMap(l, lo, <<>>, <<>>)
        R  == toMap(r, ro, <<>>, <<>>)
        matched == SelectSeq(lo, LAMBDA n : L.map[keyOf(l, n)] = n
                                            /\ keyOf(l, n) \in DOMAIN R.map)
        pairs == [i \in 1..Len(matched) |->
                    [left |-> matched[i], right |-> R.map[keyOf(l, matched[i])]]]
    IN  [onlyInLeft  |-> onlyIn(l, lo, L, R),
         onlyInRight |-> onlyIn(r, ro, R, L),
         inBothButDifferent |-> SelectSeq(pairs, LAMBDA p : ~sameAttributes(l, r, p)),
         unchanged |-> SelectSeq(pairs, LAMBDA p : sameAttributes(l, r, p))]

NoDiff == [onlyInLeft |-> <<>>, onlyInRight |-> <<>>, inBothButDifferent |-> <<>>,
           unchanged |-> <<>>]

(***************************************************************************)
(* TreeNode.createTree(null, flatList).  Ids are numbers, NullId the null  *)
(* parentId (the root sentinel); node 1 of a tree is the synthetic root    *)
(* and node k + 1 holds the k-th element of the list.                      *)
(***************************************************************************)
NullId == 0
TreeData(i, p) == [id |-> i, parentId |-> p, name |-> NatToString(i)]
RootData == [id |-> NullId, parentId |-> NullId, name |-> <<>>]

\* lists of distinct ids in any order, each with any parentId: null, an id of
\* the list (itself included), or an id the list does not have
FlatLists ==
    {[k \in DOMAIN c[1] |-> TreeData(c[1][k], c[2][k])] :
        c \in {d \in SeqsUpTo(1..MaxNodes, MaxNodes) \X SeqsUpTo(0..MaxNodes, MaxNodes) :
                    /\ Len(d[1]) = Len(d[2])
                    /\ \A a, b \in DOMAIN d[1] : d[1][a] = d[1][b] => a = b}}

NoTree == [data |-> <<>>, children |-> <<>>, parent |-> <<>>]

\* a variant that hangs every node whose parent resolves under the root
resolveParent_AlwaysRoot(index, d) ==
    IF d.parentId = NullId \/ d.parentId \in DOMAIN index THEN 1 ELSE 0

\* a variant that falls back to the root when the parent does not resolve
resolveParent_Lenient(index, d) ==
    IF d.parentId \in DOMAIN index THEN index[d.parentId] ELSE 1

\* the node a list element hangs under: the synthetic root for the sentinel,
\* the indexed node for an id of the list, none (0) otherwise
resolveParent(index, d) ==
    IF d.parentId = NullId THEN 1
    ELSE IF d.parentId \in DOMAIN index THEN index[d.parentId]
    ELSE 0

\* getFullPath().getSegments(): the names from below the synthetic root down to n
RECURSIVE getFullPath(_, _)
getFullPath(t, n) ==
    IF n = 1 THEN <<>> ELSE Append(getFullPath(t, t.parent[n]), t.data[n].name)

(***************************************************************************)
(* createTreeFromChromeBookmarks.  The browser's tree is its nodes by id,   *)
(* the root the node with id 1 and no parentId.                            *)
(***************************************************************************)
BookmarkTreeNode(i, p, t, c) == [id |-> i, parentId |-> p, title |-> t, children |-> c]

RECURSIVE Perms(_)
Perms(S) == IF S = {} THEN {<<>>} ELSE UNION {{<<x>> \o s : s \in Perms(S \ {x})} : x \in S}

\* following the parents from node k for at most n steps ends at the root
RECURSIVE UnderRoot(_, _, _)
UnderRoot(p, k, n) == k = 1 \/ (n > 0 /\ UnderRoot(p, p[k], n - 1))

\* every tree of the root and up to MaxNodes nodes below it: any parent for
\* any id, the children of a node in any order
ChromeTrees ==
    UNION {
        {[k \in 1..n |->
            BookmarkTreeNode(k, IF k = 1 THEN NoParent ELSE p[k],
                             IF k = 1 THEN <<>> ELSE NatToString(k),
                             SelectSeq(order, LAMBDA j : p[j] = k))] :
            p \in {q \in [2..n -> 1..n] : \A k \in 2..n : UnderRoot(q, k, n)},
            order \in Perms(2..n)} :
        n \in 1..(MaxNodes + 1)}

\* new ChromeBookmarkNodeData(node): getId, getParentId (rawData.parentId ||
\* null) and getName
ChromeBookmarkNodeData(node) ==
    [id |-> node.id,
     parentId |-> IF Truthy(node.parentId) THEN node.parentId ELSE NullId,
     name |-> node.title]

\* a variant that puts the children at the head of the queue
nextQueue_ChildrenFirst(q, node) == node.children \o Tail(q)

\* queue.shift() and one queue.push per child
nextQueue(q, node) == Tail(q) \o node.children

(***************************************************************************)
(* State.                                                                  *)
(***************************************************************************)
VARIABLES
    \* the remote service and the inputs of incrementalSync
    raindrops,          \* the remote's items, in listing order
    tree,               \* opts.tree
    includeUnsorted,    \* opts.includeUnsorted !== false
    \* the destination and the store
    bookmarks,          \* chrome.bookmarks: id -> [parentId, title, url]
    nextId,             \* the id chrome.bookmarks.create gives next
    storage,            \* chrome.storage.local, key 'syncState'
    syncState,          \* this.syncState
    clock,              \* what new Date() returns
    \* one incrementalSync call
    pc,                 \* where the call is
    previousBookmarks, newBookmarks, collectionFolders, stats,
    stack,              \* pending processCollectionForIncremental calls
    folder,             \* the folder resolved for the current collection
    collectionId,       \* the current collection
    pending,            \* the raindrops of the current collection still to process
    toDelete,           \* keys of previousBookmarks the deletion pass has not visited
    \* bookkeeping of the behaviour (read by no action's effect on the program)
    runs, faults, changes,
    lastOutcome,        \* how the previous call ended: "none", "ok", "failed"
    delta,              \* what the remote changed since the last call returned
    thrown,             \* the external calls that threw in this call
    storageAtStart, bookmarksAtStart, touched,
    reads, writes,      \* calls of chrome.storage.local.get and set in this call
    \* normalizeUrl applied to an input
    input, output,
    \* calculateSyncDiff applied to two trees
    left, right,        \* the two trees compared
    diffPc,             \* "pending" until the diff is computed, then "done"
    syncDiff,           \* the SyncDiff shown by the page
    \* TreeNode.createTree applied to a flat list
    flatList,           \* the NodeData list handed to createTree
    treePc,             \* "index", "link", then "done" or "MalformedTreeError"
    nodeMap,            \* id -> node, the index of the first pass
    treeNode,           \* the tree under construction, node 1 its synthetic root
    linked,             \* how many elements of the list are linked to a parent
    \* one full resync: createBookmarksRecursively on opts.tree
    fullPc,             \* "off": not exercised; "idle" before the call, then "running"
    tasks,              \* node of opts.tree -> the call made for it
    \* createTreeFromChromeBookmarks
    chromeTree,         \* what chrome.bookmarks.getTree() resolves with, node by id
    flattenPc,          \* "getTree", "flatten", "createTree", then "returned" or "rejected"
    queue, dataList,    \* the queue and the list of the breadth-first loop
    realRoot,           \* the node returned (0: none, or undefined)
    \* the browser change listener
    chromeListeners,        \* chrome.bookmarks.onX: event type -> listeners added
    browserChangeListeners, \* this.browserChangeListeners, the cleanup functions
    onBrowserChange,        \* this.onBrowserChange (0: undefined)
    starts,                 \* startBrowserChangeListener calls so far
    listening,              \* "never", "started" or "stopped": the last call that returned
    invoked,                \* the callback invocations of the last bookmark event
    \* saveSyncState followed by loadSyncState
    loaded,                 \* what the last loadSyncState call returned
    \* two incrementalSync calls in flight
    current,                \* the call whose locals the variables of one call hold (1 or 2)
    parked                  \* the locals of the other call, suspended at an await

syncVars == <<raindrops, tree, includeUnsorted, bookmarks, nextId, storage, syncState,
              clock, pc, previousBookmarks, newBookmarks, collectionFolders, stats,
              stack, folder, collectionId, pending, toDelete, runs, faults, changes,
              lastOutcome, delta, thrown, storageAtStart, bookmarksAtStart, touched,
              reads, writes>>
normVars == <<input, output>>
diffVars == <<left, right, diffPc, syncDiff>>
treeVars == <<flatList, treePc, nodeMap, treeNode, linked>>
fullVars == <<fullPc, tasks>>
flattenVars == <<chromeTree, flattenPc, queue, dataList, realRoot>>
listenerVars == <<chromeListeners, browserChangeListeners, onBrowserChange, starts,
                  listening, invoked>>
tripVars == <<loaded>>
overlapVars == <<current, parked>>
extVars == <<flattenVars, listenerVars, tripVars, overlapVars>>
libVars == <<normVars, diffVars, treeVars, fullVars, extVars>>
vars == <<syncVars, libVars>>

remoteVars == <<raindrops, tree, includeUnsorted>>
destVars   == <<bookmarks, nextId>>
storeVars  == <<storage, syncState, clock>>
callVars   == <<previousBookmarks, newBookmarks, collectionFolders, stats,
               stack, folder, collectionId, pending, toDelete>>
histVars   == <<storageAtStart, bookmarksAtStart, reads, writes>>

NoDelta == [kind |-> "none", link |-> NoUrl, newLink |-> NoUrl, from |-> 0, to |-> 0]
Pending == <<"pending">>     \* normalizeUrl has not been applied yet

Node(p, t, u) == [parentId |-> p, title |-> t, url |-> u]

\* the destination before the first call: the managed root is empty, and the
\* user may keep a bookmark of their own outside it
InitialBookmarks ==
    { (RootId :> Node(NoParent, "", NoUrl)) @@ (BaseId :> Node(RootId, "Sync", NoUrl))
        @@ (OtherId :> Node(RootId, "Mine", NoUrl)) }
    \cup
    { (RootId :> Node(NoParent, "", NoUrl)) @@ (BaseId :> Node(RootId, "Sync", NoUrl))
        @@ (OtherId :> Node(RootId, "Mine", NoUrl))
        @@ (UserItemId :> Node(OtherId, "mine", u)) : u \in {<<"a">>} }

SyncIdle ==
    /\ pc = "idle"
    /\ previousBookmarks = EmptyMap /\ newBookmarks = EmptyMap
    /\ collectionFolders = EmptyMap /\ stats = ZeroStats
    /\ stack = <<>> /\ folder = BaseId /\ collectionId = UNSORTED_ID
    /\ pending = <<>> /\ toDelete = <<>>
    /\ thrown = {} /\ touched = {}

InitSync ==
    /\ raindrops \in SeqsUpTo(Raindrop, MaxRaindrops)
    /\ tree \in Trees
    /\ includeUnsorted \in BOOLEAN
    /\ bookmarks \in InitialBookmarks
    /\ nextId = UserItemId + 1
    /\ storage = NoStorage
    /\ syncState = NoState
    /\ clock = 1
    /\ SyncIdle
    /\ runs = 0 /\ faults = 0 /\ changes = 0
    /\ lastOutcome = "none"
    /\ delta = NoDelta
    /\ storageAtStart = NoStorage
    /\ bookmarksAtStart = bookmarks
    /\ reads = 0 /\ writes = 0

\* the parts of the state an unused operation leaves at rest
NormIdle == input = <<>> /\ output = Pending
DiffIdle ==
    /\ left = CHOOSE t \in DiffTrees : Len(t.data) = 1 /\ t.data[1].name = "n1"
    /\ right = left
    /\ diffPc = "pending" /\ syncDiff = NoDiff

TreeIdle ==
    /\ flatList = <<>> /\ treePc = "index" /\ nodeMap = <<>>
    /\ treeNode = NoTree /\ linked = 0

\* a task: where the call for one node is, the folder it fills, and the item
\* creates it has issued that have not completed
Task(at, f, items) == [pc |-> at, baseFolder |-> f, pending |-> items]
FullOff == fullPc = "off" /\ tasks = <<>>

\* getTree is not called: the tree of the root alone
FlattenIdle ==
    /\ chromeTree = <<BookmarkTreeNode(1, NoParent, <<>>, <<>>)>>
    /\ flattenPc = "getTree" /\ queue = <<>> /\ dataList = <<>> /\ realRoot = 0
\* no listener has been started
EventTypes == {"created", "removed", "changed", "moved"}
ListenerIdle ==
    /\ chromeListeners = [e \in EventTypes |-> {}]
    /\ browserChangeListeners = <<>>
    /\ onBrowserChange = 0
    /\ starts = 0 /\ listening = "never" /\ invoked = {}

\* what loadSyncState returns: null, or a SyncState
Returned(isNull, state) == [called |-> TRUE, null |-> isNull, state |-> state]
NotCalled == [called |-> FALSE, null |-> TRUE, state |-> NoState]
TripIdle == loaded = NotCalled

\* the locals of an incrementalSync call, and those of a call not made
Locals(at, prev, new, cf, st, stk, f, id, rds, del, thr, tch) ==
    [pc |-> at, previousBookmarks |-> prev, newBookmarks |-> new,
     collectionFolders |-> cf, stats |-> st, stack |-> stk, folder |-> f,
     collectionId |-> id, pending |-> rds, toDelete |-> del,
     thrown |-> thr, touched |-> tch]
NoCall ==
    Locals("idle", EmptyMap, EmptyMap, EmptyMap, ZeroStats, <<>>, BaseId, UNSORTED_ID,
           <<>>, <<>>, {}, {})
OverlapIdle == current = 1 /\ parked = NoCall

ExtIdle == FlattenIdle /\ ListenerIdle /\ TripIdle /\ OverlapIdle

Init ==
    /\ InitSync
    /\ NormIdle /\ DiffIdle /\ TreeIdle /\ FullOff /\ ExtIdle

(***************************************************************************)
(* The destination store's calls.                                          *)
(***************************************************************************)
\* chrome.bookmarks.search({ url }): every bookmark with that URL, anywhere
search(bm, url) == SetToSeq({id \in DOMAIN bm : bm[id].url = url})

\* chrome.bookmarks.getChildren(id)
getChildren(bm, id) == SetToSeq({c \in DOMAIN bm : bm[c].parentId = id})

\* chrome.bookmarks.create
create(bm, id, parentId, title, url) == bm @@ (id :> Node(parentId, title, url))

UpdateOp(id, title) == [op |-> "update", id |-> id, title |-> title, parentId |-> NoParent]
MoveOp(id, parentId) == [op |-> "move", id |-> id, title |-> "", parentId |-> parentId]
RemoveOp(id) == [op |-> "remove", id |-> id, title |-> "", parentId |-> NoParent]

\* chrome.bookmarks.update / move / remove
apply(bm, o) ==
    CASE o.op = "update" -> [bm EXCEPT ![o.id].title = o.title]
      [] o.op = "move"   -> [bm EXCEPT ![o.id].parentId = o.parentId]
      [] o.op = "remove" -> [id \in (DOMAIN bm) \ {o.id} |-> bm[id]]

\* the first k calls of a sequence of calls, issued one after the other
RECURSIVE applyFirst(_, _, _)
applyFirst(bm, ops, k) ==
    IF k = 0 \/ ops = <<>> THEN bm
    ELSE applyFirst(apply(bm, Head(ops)), Tail(ops), k - 1)

RECURSIVE Flatten(_)
Flatten(ss) == IF ss = <<>> THEN <<>> ELSE Head(ss) \o Flatten(Tail(ss))

\* ancestors-or-self test in the destination tree
RECURSIVE IsUnder(_, _, _)
IsUnder(bm, id, top) ==
    IF id = top THEN TRUE
    ELSE IF id \notin DOMAIN bm \/ bm[id].parentId = NoParent THEN FALSE
    ELSE IsUnder(bm, bm[id].parentId, top)

isInSyncFolder(folderId, syncFolderId) == TRUE

\* raindropClient.raindrop.getAllRaindrops(collectionId)
getAllRaindrops(id) == SelectSeq(raindrops, LAMBDA r : r.collectionId = id)

\* tree.data?._id ?? -1 of node n of opts.tree, and the node n is a child of (0: none)
IdOf(n) == IF tree.data[n].null THEN UNSORTED_ID ELSE tree.data[n]._id
ParentOf(n) ==
    IF \E p \in DOMAIN tree.children : \E i \in DOMAIN tree.children[p] : tree.children[p][i] = n
    THEN CHOOSE p \in DOMAIN tree.children :
            \E i \in DOMAIN tree.children[p] : tree.children[p][i] = n
    ELSE 0

\* raindropId, lastModified and cover are stored too; no decision reads them
BookmarkState(rd, id) == [url |-> rd.link, title |-> rd.title, collectionId |-> id]

Inc(st, f) == [st EXCEPT ![f] = @ + 1]
Thrown(call, id, link) == [call |-> call, collectionId |-> id, link |-> link]
OpIds(ops, k) == {ops[i].id : i \in 1..k}

(***************************************************************************)
(* The remote service between two calls.                                   *)
(***************************************************************************)
\* the remote is edited between a call that succeeded and the next call
CanChange ==
    /\ pc = "idle" /\ lastOutcome = "ok" /\ runs < MaxRuns /\ changes < MaxChanges

Changed(d) ==
    /\ delta' = IF delta.kind = "none" THEN d ELSE [NoDelta EXCEPT !.kind = "many"]
    /\ changes' = changes + 1
    /\ UNCHANGED <<tree, includeUnsorted, destVars, storeVars, pc, callVars, runs, faults,
                   lastOutcome, thrown, histVars, touched, libVars>>

WithoutIndex(s, i) == SubSeq(s, 1, i - 1) \o SubSeq(s, i + 1, Len(s))

RemoveRaindrop ==
    /\ CanChange
    /\ \E i \in DOMAIN raindrops :
        /\ raindrops' = WithoutIndex(raindrops, i)
        /\ Changed([NoDelta EXCEPT !.kind = "removed", !.link = raindrops[i].link,
                                   !.from = raindrops[i].collectionId])

AddRaindrop ==
    /\ CanChange
    /\ Len(raindrops) < MaxRaindrops
    /\ \E r \in Raindrop :
        /\ raindrops' = Append(raindrops, r)
        /\ Changed([NoDelta EXCEPT !.kind = "added", !.link = r.link, !.to = r.collectionId])

RetitleRaindrop ==
    /\ CanChange
    /\ \E i \in DOMAIN raindrops : \E t \in Titles \ {raindrops[i].title} :
        /\ raindrops' = [raindrops EXCEPT ![i].title = t]
        /\ Changed([NoDelta EXCEPT !.kind = "retitled", !.link = raindrops[i].link])

MoveRaindrop ==
    /\ CanChange
    /\ \E i \in DOMAIN raindrops : \E c \in CollectionIds \ {raindrops[i].collectionId} :
        /\ raindrops' = [raindrops EXCEPT ![i].collectionId = c]
        /\ Changed([NoDelta EXCEPT !.kind = "moved", !.link = raindrops[i].link,
                                   !.from = raindrops[i].collectionId, !.to = c])

RelinkRaindrop ==
    /\ CanChange
    /\ \E i \in DOMAIN raindrops : \E u \in Urls \ {raindrops[i].link} :
        /\ raindrops' = [raindrops EXCEPT ![i].link = u]
        /\ Changed([NoDelta EXCEPT !.kind = "relinked", !.link = raindrops[i].link,
                                   !.newLink = u, !.from = raindrops[i].collectionId])

(***************************************************************************)
(* incrementalSync.                                                        *)
(***************************************************************************)
CanThrow == faults < MaxFaults

\* an uncaught exception: the promise of incrementalSync rejects
Throws(call, id, link) ==
    /\ CanThrow
    /\ faults' = faults + 1
    /\ thrown' = thrown \cup {Thrown(call, id, link)}
    /\ pc' = "failed"

StartSync ==
    /\ pc = "idle" /\ runs < MaxRuns
    /\ pc' = "load"
    /\ stats' = ZeroStats
    /\ storageAtStart' = storage
    /\ bookmarksAtStart' = bookmarks
    /\ reads' = 0 /\ writes' = 0
    /\ UNCHANGED <<remoteVars, destVars, storeVars, previousBookmarks, newBookmarks,
                   collectionFolders, stack, folder, collectionId, pending, toDelete,
                   runs, faults, changes, lastOutcome, delta, thrown, touched, libVars>>

\* loadSyncState returns null: result.syncState is not truthy
loadsNull(st) == ~st.present

\* loadSyncState
loadSyncState(st) == IF st.present THEN FromBlob(st.syncState) ELSE NoState

LoadState ==
    /\ pc = "load"
    /\ previousBookmarks' = loadSyncState(storage).bookmarks
    /\ newBookmarks' = EmptyMap
    /\ collectionFolders' = EmptyMap
    /\ stack' = <<[node |-> 1, parentFolder |-> BaseId]>>
    /\ toDelete' = SelectSeq(UrlOrder, LAMBDA u : Has(loadSyncState(storage).bookmarks, u))
    /\ pc' = "resolve"
    /\ reads' = reads + 1
    /\ UNCHANGED <<remoteVars, destVars, storeVars, stats, folder, collectionId, pending,
                   runs, faults, changes, lastOutcome, delta, thrown, storageAtStart,
                   bookmarksAtStart, writes, touched, libVars>>

LoadStateThrows ==
    /\ pc = "load"
    /\ Throws("load", UNSORTED_ID, NoUrl)
    /\ reads' = reads + 1
    /\ UNCHANGED <<remoteVars, destVars, storeVars, callVars, runs, changes, lastOutcome,
                   delta, storageAtStart, bookmarksAtStart, writes, touched, libVars>>

\* processCollectionForIncremental, up to the folder of the collection
FrameData == tree.data[Head(stack).node]
FrameId == IF FrameData.null THEN UNSORTED_ID ELSE FrameData._id
FrameTitled == ~FrameData.null /\ FrameData.title # ""
\* the folder is fetched when the new map names one that still exists
FrameReuses ==
    /\ Has(collectionFolders, FrameId)
    /\ collectionFolders[FrameId] \in DOMAIN bookmarks

ResolveFolder ==
    /\ pc = "resolve"
    /\ collectionId' = FrameId
    /\ IF FrameTitled
       THEN IF FrameReuses
            THEN /\ folder' = collectionFolders[FrameId]
                 /\ UNCHANGED <<destVars, touched>>
            ELSE /\ bookmarks' = create(bookmarks, nextId, Head(stack).parentFolder,
                                        FrameData.title, NoUrl)
                 /\ nextId' = nextId + 1
                 /\ folder' = nextId
                 /\ touched' = touched \cup {nextId}
       ELSE /\ folder' = Head(stack).parentFolder
            /\ UNCHANGED <<destVars, touched>>
    /\ collectionFolders' = IF FrameTitled THEN Put(collectionFolders, FrameId, folder')
                            ELSE collectionFolders
    /\ pc' = "list"
    /\ UNCHANGED <<remoteVars, storeVars, previousBookmarks, newBookmarks, stats, stack,
                   pending, toDelete, runs, faults, changes, lastOutcome, delta, thrown,
                   histVars, libVars>>

\* chrome.bookmarks.create of the folder throws
ResolveFolderThrows ==
    /\ pc = "resolve"
    /\ FrameTitled /\ ~FrameReuses
    /\ Throws("createFolder", FrameId, NoUrl)
    /\ UNCHANGED <<remoteVars, destVars, storeVars, callVars, runs, changes, lastOutcome,
                   delta, histVars, touched, libVars>>

FetchRaindrops ==
    /\ pc = "list"
    /\ pending' = getAllRaindrops(collectionId)
    /\ pc' = "items"
    /\ UNCHANGED <<remoteVars, destVars, storeVars, previousBookmarks, newBookmarks,
                   collectionFolders, stats, stack, folder, collectionId, toDelete,
                   runs, faults, changes, lastOutcome, delta, thrown, histVars, touched,
                   libVars>>

FetchRaindropsThrows ==
    /\ pc = "list"
    /\ Throws("list", collectionId, NoUrl)
    /\ UNCHANGED <<remoteVars, destVars, storeVars, callVars, runs, changes, lastOutcome,
                   delta, histVars, touched, libVars>>

\* which branch of the loop body a raindrop takes
Branch(rd, id) ==
    IF ~Has(previousBookmarks, rd.link) THEN "create"
    ELSE IF previousBookmarks[rd.link].title # rd.title
            \/ previousBookmarks[rd.link].collectionId # id THEN "update"
    ELSE "unchanged"

\* the update and move calls of the update branch, in the order they are issued
UpdateCalls(rd, id) ==
    LET results == search(bookmarks, rd.link)
    IN  Flatten([i \in 1..Len(results) |->
            IF Truthy(bookmarks[results[i]].parentId)
            THEN <<UpdateOp(results[i], rd.title)>> \o
                 (IF previousBookmarks[rd.link].collectionId # id
                  THEN <<MoveOp(results[i], folder)>> ELSE <<>>)
            ELSE <<>>])

\* the argument of the final saveSyncState call
NewState == [bookmarks |-> newBookmarks, collectionFolders |-> collectionFolders,
             lastSync |-> clock]

ProcessRaindropWith(st) ==
    /\ pc = "items" /\ pending # <<>>
    /\ LET rd == Head(pending)
           b == Branch(rd, collectionId)
       IN  /\ newBookmarks' = Put(newBookmarks, rd.link, BookmarkState(rd, collectionId))
           /\ CASE b = "create" ->
                    /\ bookmarks' = create(bookmarks, nextId, folder, rd.title, rd.link)
                    /\ nextId' = nextId + 1
                    /\ touched' = touched \cup {nextId}
                    /\ stats' = Inc(stats, "added")
                [] b = "update" ->
                    LET ops == UpdateCalls(rd, collectionId)
                    IN  /\ bookmarks' = applyFirst(bookmarks, ops, Len(ops))
                        /\ nextId' = nextId
                        /\ touched' = touched \cup OpIds(ops, Len(ops))
                        /\ stats' = Inc(stats, "updated")
                [] b = "unchanged" ->
                    /\ stats' = Inc(stats, "unchanged")
                    /\ UNCHANGED <<destVars, touched>>
    /\ pending' = Tail(pending)
    /\ storage' = st
    /\ UNCHANGED <<remoteVars, syncState, clock, pc, previousBookmarks, collectionFolders,
                   stack, folder, collectionId, toDelete, runs, faults, changes,
                   lastOutcome, delta, thrown, histVars, libVars>>

\* a variant that patches the store as the walk goes
ProcessRaindrop_Patching ==
    ProcessRaindropWith([present |-> TRUE, syncState |-> ToBlob(NewState)])

ProcessRaindrop == ProcessRaindropWith(storage)

\* a call of the loop body throws: the create, the search, or the k+1-th update/move
ProcessRaindropThrows ==
    /\ pc = "items" /\ pending # <<>>
    /\ LET rd == Head(pending)
           b == Branch(rd, collectionId)
       IN  /\ b # "unchanged"
           /\ newBookmarks' = Put(newBookmarks, rd.link, BookmarkState(rd, collectionId))
           /\ IF b = "create"
              THEN /\ Throws("create", collectionId, rd.link)
                   /\ UNCHANGED <<destVars, touched>>
              ELSE LET ops == UpdateCalls(rd, collectionId)
                   IN  \E k \in 0..Len(ops) :
                        /\ k < Len(ops) \/ k = 0
                        /\ Throws(IF ops = <<>> THEN "search" ELSE ops[k + 1].op,
                                  collectionId, rd.link)
                        /\ bookmarks' = applyFirst(bookmarks, ops, k)
                        /\ nextId' = nextId
                        /\ touched' = touched \cup OpIds(ops, k)
    /\ UNCHANGED <<remoteVars, storeVars, previousBookmarks, collectionFolders, stats,
                   stack, folder, collectionId, pending, toDelete, runs, changes,
                   lastOutcome, delta, histVars, libVars>>

\* the loop over tree.children: the children are processed next, first child first
DispatchChildren ==
    /\ pc = "items" /\ pending = <<>>
    /\ LET kids == tree.children[Head(stack).node]
           frames == [i \in 1..Len(kids) |-> [node |-> kids[i], parentFolder |-> folder]]
       IN  /\ stack' = frames \o Tail(stack)
           /\ pc' = IF stack' # <<>> THEN "resolve"
                    ELSE IF includeUnsorted THEN "unsorted" ELSE "delete"
    /\ UNCHANGED <<remoteVars, destVars, storeVars, previousBookmarks, newBookmarks,
                   collectionFolders, stats, folder, collectionId, pending, toDelete,
                   runs, faults, changes, lastOutcome, delta, thrown, histVars, touched,
                   libVars>>

(***************************************************************************)
(* syncUnsortedCollection.                                                 *)
(***************************************************************************)
\* children.find(c => c.title === '... Unsorted' && !c.url)
ExistingUnsorted ==
    SelectSeq(getChildren(bookmarks, BaseId),
              LAMBDA c : bookmarks[c].title = UnsortedTitle /\ bookmarks[c].url = NoUrl)

UnsortedReuses ==
    \/ Has(collectionFolders, UNSORTED_ID) /\ collectionFolders[UNSORTED_ID] \in DOMAIN bookmarks
    \/ ~Has(collectionFolders, UNSORTED_ID) /\ ExistingUnsorted # <<>>

ResolveUnsortedFolder ==
    /\ pc = "unsorted"
    /\ IF UnsortedReuses
       THEN /\ folder' = IF Has(collectionFolders, UNSORTED_ID)
                         THEN collectionFolders[UNSORTED_ID]
                         ELSE Head(ExistingUnsorted)
            /\ UNCHANGED <<destVars, touched>>
       ELSE /\ bookmarks' = create(bookmarks, nextId, BaseId, UnsortedTitle, NoUrl)
            /\ nextId' = nextId + 1
            /\ folder' = nextId
            /\ touched' = touched \cup {nextId}
    /\ collectionFolders' = Put(collectionFolders, UNSORTED_ID, folder')
    /\ collectionId' = UNSORTED_ID
    /\ pc' = "ulist"
    /\ UNCHANGED <<remoteVars, storeVars, previousBookmarks, newBookmarks, stats, stack,
                   pending, toDelete, runs, faults, changes, lastOutcome, delta, thrown,
                   histVars, libVars>>

\* getChildren or create throws, outside the try block
ResolveUnsortedFolderThrows ==
    /\ pc = "unsorted"
    /\ Throws("createFolder", UNSORTED_ID, NoUrl)
    /\ UNCHANGED <<remoteVars, destVars, storeVars, callVars, runs, changes, lastOutcome,
                   delta, histVars, touched, libVars>>

FetchUnsorted ==
    /\ pc = "ulist"
    /\ pending' = getAllRaindrops(UNSORTED_ID)
    /\ pc' = "uitems"
    /\ UNCHANGED <<remoteVars, destVars, storeVars, previousBookmarks, newBookmarks,
                   collectionFolders, stats, stack, folder, collectionId, toDelete,
                   runs, faults, changes, lastOutcome, delta, thrown, histVars, touched,
                   libVars>>

\* an exception inside the try block is logged, and the call goes on
Caught(call, id, link) ==
    /\ CanThrow
    /\ faults' = faults + 1
    /\ thrown' = thrown \cup {Thrown(call, id, link)}

FetchUnsortedThrows ==
    /\ pc = "ulist"
    /\ Caught("list", UNSORTED_ID, NoUrl)
    /\ pc' = "delete"
    /\ UNCHANGED <<remoteVars, destVars, storeVars, callVars, runs, changes, lastOutcome,
                   delta, histVars, touched, libVars>>

\* a variant without the guard against items the main walk has recorded
UnsortedBranch_Unguarded(rd) ==
    IF ~Has(previousBookmarks, rd.link) THEN "create"
    ELSE IF previousBookmarks[rd.link].title # rd.title THEN "update"
    ELSE "unchanged"

\* a variant whose guard looks the URL up in the previous map
UnsortedBranch_GuardOnPrevious(rd) ==
    IF Has(previousBookmarks, rd.link) /\ Has(newBookmarks, rd.link) THEN "skip"
    ELSE IF ~Has(previousBookmarks, rd.link) THEN "create"
    ELSE IF previousBookmarks[rd.link].title # rd.title THEN "update"
    ELSE "unchanged"

UnsortedBranch(rd) ==
    IF Has(newBookmarks, rd.link) THEN "skip"
    ELSE IF ~Has(previousBookmarks, rd.link) THEN "create"
    ELSE IF previousBookmarks[rd.link].title # rd.title THEN "update"
    ELSE "unchanged"

UnsortedUpdateCalls(rd) ==
    LET results == search(bookmarks, rd.link)
    IN  [i \in 1..Len(results) |-> UpdateOp(results[i], rd.title)]

ProcessUnsorted ==
    /\ pc = "uitems" /\ pending # <<>>
    /\ LET rd == Head(pending)
           b == UnsortedBranch(rd)
       IN  /\ newBookmarks' = IF b = "skip" THEN newBookmarks
                              ELSE Put(newBookmarks, rd.link, BookmarkState(rd, UNSORTED_ID))
           /\ CASE b = "skip" ->
                    UNCHANGED <<destVars, touched, stats>>
                [] b = "create" ->
                    /\ bookmarks' = create(bookmarks, nextId, folder, rd.title, rd.link)
                    /\ nextId' = nextId + 1
                    /\ touched' = touched \cup {nextId}
                    /\ stats' = Inc(stats, "added")
                [] b = "update" ->
                    LET ops == UnsortedUpdateCalls(rd)
                    IN  /\ bookmarks' = applyFirst(bookmarks, ops, Len(ops))
                        /\ nextId' = nextId
                        /\ touched' = touched \cup OpIds(ops, Len(ops))
                        /\ stats' = Inc(stats, "updated")
                [] b = "unchanged" ->
                    /\ stats' = Inc(stats, "unchanged")
                    /\ UNCHANGED <<destVars, touched>>
    /\ pending' = Tail(pending)
    /\ UNCHANGED <<remoteVars, storeVars, pc, previousBookmarks, collectionFolders,
                   stack, folder, collectionId, toDelete, runs, faults, changes,
                   lastOutcome, delta, thrown, histVars, libVars>>

\* a call of the loop body throws: the rest of the unsorted pass is given up
ProcessUnsortedThrows ==
    /\ pc = "uitems" /\ pending # <<>>
    /\ LET rd == Head(pending)
           b == UnsortedBranch(rd)
       IN  /\ b \in {"create", "update"}
           /\ newBookmarks' = Put(newBookmarks, rd.link, BookmarkState(rd, UNSORTED_ID))
           /\ IF b = "create"
              THEN /\ Caught("create", UNSORTED_ID, rd.link)
                   /\ UNCHANGED <<destVars, touched>>
              ELSE LET ops == UnsortedUpdateCalls(rd)
                   IN  \E k \in 0..Len(ops) :
                        /\ k < Len(ops) \/ k = 0
                        /\ Caught(IF ops = <<>> THEN "search" ELSE ops[k + 1].op,
                                  UNSORTED_ID, rd.link)
                        /\ bookmarks' = applyFirst(bookmarks, ops, k)
                        /\ nextId' = nextId
                        /\ touched' = touched \cup OpIds(ops, k)
    /\ pc' = "delete"
    /\ UNCHANGED <<remoteVars, storeVars, previousBookmarks, collectionFolders, stats,
                   stack, folder, collectionId, pending, toDelete, runs, changes,
                   lastOutcome, delta, histVars, libVars>>

FinishUnsorted ==
    /\ pc = "uitems" /\ pending = <<>>
    /\ pc' = "delete"
    /\ UNCHANGED <<remoteVars, destVars, storeVars, callVars, runs, faults, changes,
                   lastOutcome, delta, thrown, histVars, touched, libVars>>

(***************************************************************************)
(* The deletion pass and the save.                                         *)
(***************************************************************************)
\* a variant that tests the key against the map it comes from
RemoveCalls_AgainstPrevious(url) ==
    IF Has(previousBookmarks, url) THEN <<>>
    ELSE LET results == search(bookmarks, url)
         IN  Flatten([i \in 1..Len(results) |->
                IF Truthy(bookmarks[results[i]].parentId)
                   /\ isInSyncFolder(bookmarks[results[i]].parentId, BaseId)
                THEN <<RemoveOp(results[i])>> ELSE <<>>])

\* the remove calls for one key of previousBookmarks
RemoveCalls(url) ==
    IF Has(newBookmarks, url) THEN <<>>
    ELSE LET results == search(bookmarks, url)
         IN  Flatten([i \in 1..Len(results) |->
                IF Truthy(bookmarks[results[i]].parentId)
                   /\ isInSyncFolder(bookmarks[results[i]].parentId, BaseId)
                THEN <<RemoveOp(results[i])>> ELSE <<>>])

DeleteStale ==
    /\ pc = "delete" /\ toDelete # <<>>
    /\ LET ops == RemoveCalls(Head(toDelete))
       IN  /\ bookmarks' = applyFirst(bookmarks, ops, Len(ops))
           /\ touched' = touched \cup OpIds(ops, Len(ops))
           /\ stats' = [stats EXCEPT !.deleted = @ + Len(ops)]
    /\ toDelete' = Tail(toDelete)
    /\ UNCHANGED <<remoteVars, nextId, storeVars, pc, previousBookmarks, newBookmarks,
                   collectionFolders, stack, folder, collectionId, pending, runs, faults,
                   changes, lastOutcome, delta, thrown, histVars, libVars>>

\* the search or the k+1-th remove throws: logged, the next key is visited
DeleteStaleThrows ==
    /\ pc = "delete" /\ toDelete # <<>>
    /\ ~Has(newBookmarks, Head(toDelete))
    /\ LET ops == RemoveCalls(Head(toDelete))
       IN  \E k \in 0..Len(ops) :
            /\ k < Len(ops) \/ k = 0
            /\ Caught(IF ops = <<>> THEN "search" ELSE "remove", UNSORTED_ID, Head(toDelete))
            /\ bookmarks' = applyFirst(bookmarks, ops, k)
            /\ touched' = touched \cup OpIds(ops, k)
            /\ stats' = [stats EXCEPT !.deleted = @ + k]
    /\ toDelete' = Tail(toDelete)
    /\ UNCHANGED <<remoteVars, nextId, storeVars, pc, previousBookmarks, newBookmarks,
                   collectionFolders, stack, folder, collectionId, pending, runs,
                   changes, lastOutcome, delta, histVars, libVars>>

\* a variant that adds the entries of the state to the entries stored
saveSyncState_Merging(state) ==
    /\ storage' = [present |-> TRUE,
                   syncState |-> ToBlob(
                        [bookmarks |-> state.bookmarks @@ loadSyncState(storage).bookmarks,
                         collectionFolders |-> state.collectionFolders
                                                @@ loadSyncState(storage).collectionFolders,
                         lastSync |-> state.lastSync])]
    /\ syncState' = state

\* saveSyncState(state): the blob is set under the key, then this.syncState
saveSyncState(state) ==
    /\ storage' = [present |-> TRUE, syncState |-> ToBlob(state)]
    /\ syncState' = state

\* saveSyncState({ bookmarks: newBookmarks, collectionFolders, lastSync: new Date() }),
\* called when the statements before it are done
SaveSyncStateWhen(ready) ==
    /\ pc = "delete" /\ ready
    /\ saveSyncState(NewState)
    /\ clock' = clock + 1
    /\ writes' = writes + 1
    /\ pc' = "done"
    /\ UNCHANGED <<remoteVars, destVars, callVars, runs, faults, changes, lastOutcome,
                   delta, thrown, storageAtStart, bookmarksAtStart, reads, touched,
                   libVars>>

\* a variant that saves without waiting for the deletion pass
SaveSyncState_Early == SaveSyncStateWhen(TRUE)

SaveSyncState == SaveSyncStateWhen(toDelete = <<>>)

\* chrome.storage.local.set throws
SaveSyncStateThrows ==
    /\ pc = "delete" /\ toDelete = <<>>
    /\ Throws("save", UNSORTED_ID, NoUrl)
    /\ clock' = clock + 1
    /\ writes' = writes + 1
    /\ UNCHANGED <<remoteVars, destVars, storage, syncState, callVars, runs, changes,
                   lastOutcome, delta, storageAtStart, bookmarksAtStart, reads, touched,
                   libVars>>

\* the promise settles: the caller has the Stats, or the exception
Return ==
    /\ pc \in {"done", "failed"}
    /\ pc' = "idle"
    /\ runs' = runs + 1
    /\ lastOutcome' = IF pc = "done" THEN "ok" ELSE "failed"
    /\ delta' = IF pc = "done" THEN NoDelta ELSE delta
    /\ previousBookmarks' = EmptyMap /\ newBookmarks' = EmptyMap
    /\ collectionFolders' = EmptyMap /\ stats' = ZeroStats
    /\ stack' = <<>> /\ folder' = BaseId /\ collectionId' = UNSORTED_ID
    /\ pending' = <<>> /\ toDelete' = <<>>
    /\ thrown' = {} /\ touched' = {}
    /\ UNCHANGED <<remoteVars, destVars, storeVars, faults, changes, histVars, libVars>>

Next ==
    \/ RemoveRaindrop \/ AddRaindrop \/ RetitleRaindrop \/ MoveRaindrop \/ RelinkRaindrop
    \/ StartSync \/ LoadState \/ LoadStateThrows
    \/ ResolveFolder \/ ResolveFolderThrows
    \/ FetchRaindrops \/ FetchRaindropsThrows
    \/ ProcessRaindrop \/ ProcessRaindropThrows \/ DispatchChildren
    \/ ResolveUnsortedFolder \/ ResolveUnsortedFolderThrows
    \/ FetchUnsorted \/ FetchUnsortedThrows
    \/ ProcessUnsorted \/ ProcessUnsortedThrows \/ FinishUnsorted
    \/ DeleteStale \/ DeleteStaleThrows
    \/ SaveSyncState \/ SaveSyncStateThrows
    \/ Return

Spec == Init /\ [][Next]_vars

(***************************************************************************)
(* The full resync: createBookmarksRecursively.  The call for a node lists *)
(* the node's raindrops, issues one create per raindrop and awaits them    *)
(* all, then issues the create of each child's folder with a callback that *)
(* makes the call for the child, and returns.  Calls of different nodes    *)
(* interleave.  The calls that may throw here are the listing and the      *)
(* create of an item.                                                      *)
(***************************************************************************)
NoTask == Task("none", 0, <<>>)
NoTitle == "No Title"

InitFull ==
    /\ raindrops \in SeqsUpTo(Raindrop, MaxRaindrops)
    /\ tree \in Trees
    /\ includeUnsorted = TRUE
    /\ bookmarks \in InitialBookmarks
    /\ nextId = UserItemId + 1
    /\ storage = NoStorage
    /\ syncState = NoState
    /\ clock = 1
    /\ SyncIdle
    /\ runs = 0 /\ faults = 0 /\ changes = 0
    /\ lastOutcome = "none"
    /\ delta = NoDelta
    /\ storageAtStart = NoStorage
    /\ bookmarksAtStart = bookmarks
    /\ reads = 0 /\ writes = 0
    /\ fullPc = "idle" /\ tasks = <<>>
    /\ NormIdle /\ DiffIdle /\ TreeIdle /\ ExtIdle

\* what a step of the full resync leaves alone
FullFrame ==
    UNCHANGED <<remoteVars, storeVars, pc, callVars, runs, changes, lastOutcome, delta,
                histVars, touched, normVars, diffVars, treeVars, extVars>>

\* createBookmarksRecursively({ baseFolder, tree, ... }) is called
StartFull ==
    /\ fullPc = "idle"
    /\ fullPc' = "running"
    /\ tasks' = [n \in DOMAIN tree.data |->
                    IF n = 1 THEN Task("list", BaseId, <<>>) ELSE NoTask]
    /\ UNCHANGED <<destVars, faults, thrown>>
    /\ FullFrame

\* getAllRaindrops(collectionId) resolves; the item creates are issued
FullFetch ==
    /\ \E n \in DOMAIN tasks :
        /\ tasks[n].pc = "list"
        /\ tasks' = [tasks EXCEPT ![n].pc = "items",
                                  ![n].pending = getAllRaindrops(IdOf(n))]
    /\ UNCHANGED <<fullPc, destVars, faults, thrown>>
    /\ FullFrame

\* getAllRaindrops rejects, and with it the call for the node
FullFetchThrows ==
    /\ CanThrow
    /\ \E n \in DOMAIN tasks :
        /\ tasks[n].pc = "list"
        /\ thrown' = thrown \cup {Thrown("list", IdOf(n), NoUrl)}
        /\ tasks' = [tasks EXCEPT ![n].pc = "rejected"]
    /\ faults' = faults + 1
    /\ UNCHANGED <<fullPc, destVars>>
    /\ FullFrame

\* one of the issued item creates completes (an issued create completes also
\* when the call has been rejected meanwhile)
FullCreateItem ==
    /\ \E n \in DOMAIN tasks :
        /\ tasks[n].pc \in {"items", "rejected"}
        /\ \E i \in DOMAIN tasks[n].pending :
            /\ bookmarks' = create(bookmarks, nextId, tasks[n].baseFolder,
                                   tasks[n].pending[i].title, tasks[n].pending[i].link)
            /\ tasks' = [tasks EXCEPT ![n].pending = WithoutIndex(@, i)]
    /\ nextId' = nextId + 1
    /\ UNCHANGED <<fullPc, faults, thrown>>
    /\ FullFrame

\* one of the issued item creates rejects: Promise.all rejects the call
FullCreateItemThrows ==
    /\ CanThrow
    /\ \E n \in DOMAIN tasks :
        /\ tasks[n].pc = "items"
        /\ \E i \in DOMAIN tasks[n].pending :
            /\ thrown' = thrown \cup {Thrown("create", IdOf(n), tasks[n].pending[i].link)}
            /\ tasks' = [tasks EXCEPT ![n].pc = "rejected",
                                      ![n].pending = WithoutIndex(@, i)]
    /\ faults' = faults + 1
    /\ UNCHANGED <<fullPc, destVars>>
    /\ FullFrame

\* the call for node n issues the create of every child's folder and
\* returns: the async function of the map awaits neither the create nor the
\* call its callback makes, so that the second Promise.all has nothing to
\* wait for
FullDispatchChildrenWhen(n, ready) ==
    /\ tasks[n].pc = "items" /\ ready
    /\ tasks' = [m \in DOMAIN tasks |->
                    IF m = n THEN [tasks[n] EXCEPT !.pc = "resolved"]
                    ELSE IF ParentOf(m) = n THEN Task("folder", 0, <<>>)
                    ELSE tasks[m]]
    /\ UNCHANGED <<fullPc, destVars, faults, thrown>>
    /\ FullFrame

\* a variant that does not await the item creates
FullDispatchChildren_Eager ==
    \E n \in DOMAIN tasks : FullDispatchChildrenWhen(n, TRUE)

\* the first Promise.all is awaited: every item create has completed
FullDispatchChildren ==
    \E n \in DOMAIN tasks : FullDispatchChildrenWhen(n, tasks[n].pending = <<>>)

\* the create of a child's folder completes and its callback makes the call
\* for the child, with the new folder as baseFolder
FullCreateFolder ==
    /\ \E n \in DOMAIN tasks :
        /\ tasks[n].pc = "folder"
        /\ bookmarks' = create(bookmarks, nextId, tasks[ParentOf(n)].baseFolder,
                               IF tree.data[n].null \/ tree.data[n].title = ""
                               THEN NoTitle ELSE tree.data[n].title,
                               NoUrl)
        /\ tasks' = [tasks EXCEPT ![n] = Task("list", nextId, <<>>)]
    /\ nextId' = nextId + 1
    /\ UNCHANGED <<fullPc, faults, thrown>>
    /\ FullFrame

NextFull ==
    \/ StartFull
    \/ FullFetch \/ FullFetchThrows
    \/ FullCreateItem \/ FullCreateItemThrows
    \/ FullDispatchChildren \/ FullCreateFolder

SpecFull == InitFull /\ [][NextFull]_vars

\* a behaviour exercises one of the two walks
InitWalks == Init \/ InitFull
NextWalks == (fullPc = "off" /\ Next) \/ NextFull
SpecWalks == InitWalks /\ [][NextWalks]_vars

(***************************************************************************)
(* normalizeUrl applied to every string of the bounded alphabet.           *)
(***************************************************************************)
\* incrementalSync is not called
InitSyncAtRest ==
    /\ raindrops = <<>>
    /\ tree = CHOOSE t \in Trees : Len(t.data) = 2
    /\ includeUnsorted = TRUE
    /\ bookmarks = CHOOSE b \in InitialBookmarks : UserItemId \notin DOMAIN b
    /\ nextId = UserItemId + 1
    /\ storage = NoStorage
    /\ syncState = NoState
    /\ clock = 1
    /\ SyncIdle
    /\ runs = 0 /\ faults = 0 /\ changes = 0
    /\ lastOutcome = "none"
    /\ delta = NoDelta
    /\ storageAtStart = NoStorage
    /\ bookmarksAtStart = bookmarks
    /\ reads = 0 /\ writes = 0

InitNorm ==
    /\ input \in StringsUpTo(MaxLen)
    /\ output = Pending
    /\ InitSyncAtRest /\ DiffIdle /\ TreeIdle /\ FullOff /\ ExtIdle

Normalize ==
    /\ output = Pending
    /\ output' = normalizeUrl(input)
    /\ UNCHANGED <<input, syncVars, diffVars, treeVars, fullVars, extVars>>

NextNorm == Normalize

SpecNorm == InitNorm /\ [][NextNorm]_vars

(***************************************************************************)
(* The diff of every pair of the bounded trees.                            *)
(***************************************************************************)
InitDiff ==
    /\ left \in DiffTrees /\ right \in DiffTrees
    /\ diffPc = "pending" /\ syncDiff = NoDiff
    /\ InitSyncAtRest /\ NormIdle /\ TreeIdle /\ FullOff /\ ExtIdle

\* calculateSyncDiff
ComputeDiff ==
    /\ diffPc = "pending"
    /\ syncDiff' = computeDiff(left, right)
    /\ diffPc' = "done"
    /\ UNCHANGED <<left, right, syncVars, normVars, treeVars, fullVars, extVars>>

NextDiff == ComputeDiff

SpecDiff == InitDiff /\ [][NextDiff]_vars

(***************************************************************************)
(* createTree applied to every bounded flat list.                          *)
(***************************************************************************)
InitTree ==
    /\ flatList \in FlatLists
    /\ treePc = "index" /\ nodeMap = <<>> /\ treeNode = NoTree /\ linked = 0
    /\ InitSyncAtRest /\ NormIdle /\ DiffIdle /\ FullOff /\ ExtIdle

\* first pass: one node per element, indexed by id
IndexNodes ==
    /\ treePc = "index"
    /\ nodeMap' = [i \in {flatList[k].id : k \in DOMAIN flatList} |->
                    1 + (CHOOSE k \in DOMAIN flatList : flatList[k].id = i)]
    /\ treeNode' = [data |-> <<RootData>> \o flatList,
                    children |-> [n \in 1..(Len(flatList) + 1) |-> <<>>],
                    parent |-> [n \in 1..(Len(flatList) + 1) |-> 0]]
    /\ treePc' = "link"
    /\ UNCHANGED <<flatList, linked, syncVars, normVars, diffVars, fullVars, extVars>>

\* second pass, one element: the node joins its parent's children, or the
\* parent does not resolve and createTree throws
LinkNode ==
    /\ treePc = "link" /\ linked < Len(flatList)
    /\ LET n == linked + 2
           p == resolveParent(nodeMap, flatList[linked + 1])
       IN  IF p = 0
           THEN /\ treePc' = "MalformedTreeError"
                /\ treeNode' = NoTree
                /\ linked' = linked
           ELSE /\ treeNode' = [treeNode EXCEPT !.children[p] = Append(@, n),
                                                !.parent[n] = p]
                /\ linked' = linked + 1
                /\ treePc' = treePc
    /\ UNCHANGED <<flatList, nodeMap, syncVars, normVars, diffVars, fullVars, extVars>>

\* every node must hang under the root: nodes linked in a cycle do not, and
\* createTree throws instead of returning a tree that would not end a walk
VerifyTree ==
    /\ treePc = "link" /\ linked = Len(flatList)
    /\ IF Len(flattenTree(treeNode, 1)) = Len(flatList) + 1
       THEN treePc' = "done" /\ treeNode' = treeNode
       ELSE treePc' = "MalformedTreeError" /\ treeNode' = NoTree
    /\ UNCHANGED <<flatList, nodeMap, linked, syncVars, normVars, diffVars, fullVars, extVars>>

NextTree == IndexNodes \/ LinkNode \/ VerifyTree

\* createTree is synchronous: once called it runs until it returns or throws
SpecTree == InitTree /\ [][NextTree]_vars /\ WF_vars(NextTree)

(***************************************************************************)
(* createTreeFromChromeBookmarks applied to every bounded browser tree.    *)
(***************************************************************************)
InitFlatten ==
    /\ chromeTree \in ChromeTrees
    /\ flattenPc = "getTree" /\ queue = <<>> /\ dataList = <<>> /\ realRoot = 0
    /\ InitSyncAtRest /\ NormIdle /\ DiffIdle /\ TreeIdle /\ FullOff /\ ListenerIdle
    /\ TripIdle /\ OverlapIdle

\* what a step of the flattening leaves alone
FlattenFrame ==
    UNCHANGED <<chromeTree, syncVars, normVars, diffVars, fullVars, listenerVars,
                tripVars, overlapVars>>

\* chrome.bookmarks.getTree() resolves: the queue holds the root
GetTree ==
    /\ flattenPc = "getTree"
    /\ queue' = <<1>> /\ dataList' = <<>>
    /\ flattenPc' = "flatten"
    /\ UNCHANGED <<realRoot, treeVars>>
    /\ FlattenFrame

\* one turn of the loop
FlattenNode ==
    /\ flattenPc = "flatten" /\ Len(queue) > 0
    /\ LET node == chromeTree[Head(queue)]
       IN  /\ dataList' = Append(dataList, ChromeBookmarkNodeData(node))
           /\ queue' = nextQueue(queue, node)
    /\ UNCHANGED <<flattenPc, realRoot, treeVars>>
    /\ FlattenFrame

\* the loop is left and TreeNode.createTree(null, dataList) is called
CreateTree ==
    /\ flattenPc = "flatten" /\ Len(queue) = 0
    /\ flatList' = dataList
    /\ flattenPc' = "createTree"
    /\ UNCHANGED <<queue, dataList, realRoot, treePc, nodeMap, treeNode, linked>>
    /\ FlattenFrame

\* createTree returns and wrappingRoot.children[0] is returned, or it throws
ReturnRealRoot ==
    /\ flattenPc = "createTree" /\ treePc \in {"done", "MalformedTreeError"}
    /\ IF treePc = "done"
       THEN /\ flattenPc' = "returned"
            /\ realRoot' = IF treeNode.children[1] = <<>> THEN 0
                            ELSE treeNode.children[1][1]
       ELSE /\ flattenPc' = "rejected"
            /\ realRoot' = realRoot
    /\ UNCHANGED <<queue, dataList, treeVars>>
    /\ FlattenFrame

NextFlatten ==
    \/ GetTree \/ FlattenNode \/ CreateTree
    \/ (flattenPc = "createTree" /\ IndexNodes)
    \/ (flattenPc = "createTree" /\ LinkNode)
    \/ (flattenPc = "createTree" /\ VerifyTree)
    \/ ReturnRealRoot

\* after getTree has resolved the function runs without suspending
SpecFlatten == InitFlatten /\ [][NextFlatten]_vars /\ WF_vars(NextFlatten)

(***************************************************************************)
(* The browser change listener.  The k-th call of                          *)
(* startBrowserChangeListener passes callback k and makes four closures    *)
(* over it, one per event type: a listener is the number of the call that  *)
(* made it.  Bookmark events are raised by the browser.                    *)
(***************************************************************************)
InitListener ==
    /\ ListenerIdle
    /\ InitSyncAtRest /\ NormIdle /\ DiffIdle /\ TreeIdle /\ FullOff /\ FlattenIdle
    /\ TripIdle /\ OverlapIdle

ListenerFrame ==
    UNCHANGED <<syncVars, normVars, diffVars, treeVars, fullVars, flattenVars, tripVars,
                overlapVars>>

\* a cleanup function: () => chrome.bookmarks.onX.removeListener(listener)
Cleanup(e, k) == [type |-> e, listener |-> k]

\* the array assigned to this.browserChangeListeners at the end of the k-th
\* call: it replaces the array of the call before
cleanupsOf(k) ==
    <<Cleanup("created", k), Cleanup("removed", k),
      Cleanup("changed", k), Cleanup("moved", k)>>

startBrowserChangeListener ==
    /\ starts < MaxStarts
    /\ starts' = starts + 1
    /\ onBrowserChange' = starts'
    /\ chromeListeners' = [e \in EventTypes |-> chromeListeners[e] \cup {starts'}]
    /\ browserChangeListeners' = cleanupsOf(starts')
    /\ listening' = "started"
    /\ invoked' = {}
    /\ ListenerFrame

stopBrowserChangeListener ==
    /\ chromeListeners' =
        [e \in EventTypes |->
            chromeListeners[e] \
                {browserChangeListeners[i].listener :
                    i \in {j \in DOMAIN browserChangeListeners :
                                browserChangeListeners[j].type = e}}]
    /\ browserChangeListeners' = <<>>
    /\ onBrowserChange' = 0
    /\ listening' = "stopped"
    /\ invoked' = {}
    /\ UNCHANGED starts
    /\ ListenerFrame

\* the browser raises an event: every listener added for it runs; onCreated
\* calls its callback for a bookmark with a url only
BookmarkEvent ==
    /\ \E e \in EventTypes, url \in BOOLEAN :
        invoked' = IF e = "created" /\ ~url THEN {}
                   ELSE {[callback |-> k, type |-> e] : k \in chromeListeners[e]}
    /\ UNCHANGED <<chromeListeners, browserChangeListeners, onBrowserChange, starts,
                   listening>>
    /\ ListenerFrame

NextListener ==
    startBrowserChangeListener \/ stopBrowserChangeListener \/ BookmarkEvent

SpecListener == InitListener /\ [][NextListener]_vars

(***************************************************************************)
(* saveSyncState applied to every bounded SyncState, and loadSyncState.    *)
(***************************************************************************)
\* URL-keyed maps of BookmarkState, and maps from collection ids to folder ids
BookmarkMaps ==
    UNION {{[u \in K |-> [url |-> u, title |-> f[u][1], collectionId |-> f[u][2]]] :
                f \in [K -> Titles \X CollectionIds]} : K \in SUBSET Urls}
FolderMaps ==
    UNION {[K -> {BaseId, UserItemId + 1}] : K \in SUBSET CollectionIds}
SyncStates ==
    [bookmarks : BookmarkMaps, collectionFolders : FolderMaps, lastSync : 1..MaxRuns]

InitTrip ==
    /\ loaded = NotCalled
    /\ InitSyncAtRest /\ NormIdle /\ DiffIdle /\ TreeIdle /\ FullOff
    /\ FlattenIdle /\ ListenerIdle /\ OverlapIdle

TripFrame ==
    UNCHANGED <<remoteVars, destVars, clock, pc, callVars, runs, faults, changes,
                lastOutcome, delta, thrown, histVars, touched,
                normVars, diffVars, treeVars, fullVars, flattenVars, listenerVars,
                overlapVars>>

\* saveSyncState(s) on the empty store
SaveState ==
    /\ ~storage.present
    /\ \E s \in SyncStates : saveSyncState(s)
    /\ loaded' = NotCalled
    /\ TripFrame

\* loadSyncState()
LoadStored ==
    /\ ~loaded.called
    /\ loaded' = Returned(loadsNull(storage), loadSyncState(storage))
    /\ UNCHANGED <<storage, syncState>>
    /\ TripFrame

NextTrip == SaveState \/ LoadStored

SpecTrip == InitTrip /\ [][NextTrip]_vars

(***************************************************************************)
(* Two incrementalSync calls made without awaiting the first: the second   *)
(* starts while the first is suspended at an await, and from then on       *)
(* whichever call's awaited promise settles first runs its next step.      *)
(* Each call has its own locals; the destination, the store and            *)
(* this.syncState are shared.                                              *)
(***************************************************************************)
InitOverlap ==
    /\ InitSync
    /\ Len(raindrops) < MaxRaindrops
    /\ UserItemId \notin DOMAIN bookmarks
    /\ NormIdle /\ DiffIdle /\ TreeIdle /\ FullOff
    /\ FlattenIdle /\ ListenerIdle /\ TripIdle
    /\ current = 1 /\ parked = NoCall

Settled(at) == at \in {"done", "failed"}

\* the call in the variables is suspended and the other call runs
Resume ==
    /\ pc # "idle" /\ ~Settled(parked.pc)
    /\ parked' = Locals(pc, previousBookmarks, newBookmarks, collectionFolders, stats,
                        stack, folder, collectionId, pending, toDelete, thrown, touched)
    /\ current' = 3 - current
    /\ pc' = parked.pc
    /\ previousBookmarks' = parked.previousBookmarks
    /\ newBookmarks' = parked.newBookmarks
    /\ collectionFolders' = parked.collectionFolders
    /\ stats' = parked.stats
    /\ stack' = parked.stack
    /\ folder' = parked.folder
    /\ collectionId' = parked.collectionId
    /\ pending' = parked.pending
    /\ toDelete' = parked.toDelete
    /\ thrown' = parked.thrown
    /\ touched' = parked.touched
    /\ UNCHANGED <<remoteVars, destVars, storeVars, runs, faults, changes, lastOutcome,
                   delta, histVars, normVars, diffVars, treeVars, fullVars, flattenVars,
                   listenerVars, tripVars>>

\* the two calls list the same source, so a call finds a stored key missing
\* from its new map only after a listing of its own has thrown; with
\* MaxFaults = 1 no call is left that could throw in its deletion pass
NextOverlap ==
    \/ Resume
    \/ StartSync \/ LoadState \/ LoadStateThrows
    \/ ResolveFolder \/ ResolveFolderThrows
    \/ FetchRaindrops \/ FetchRaindropsThrows
    \/ ProcessRaindrop \/ ProcessRaindropThrows \/ DispatchChildren
    \/ ResolveUnsortedFolder \/ ResolveUnsortedFolderThrows
    \/ FetchUnsorted \/ FetchUnsortedThrows
    \/ ProcessUnsorted \/ ProcessUnsortedThrows \/ FinishUnsorted
    \/ DeleteStale
    \/ SaveSyncState \/ SaveSyncStateThrows

SpecOverlap == InitOverlap /\ [][NextOverlap]_vars

(***************************************************************************)
(* Properties.                                                             *)
(***************************************************************************)
Running == pc \notin {"idle", "done"}

\* the collections one call lists: those of opts.tree, and the unsorted one
VisitedIds ==
    {IF tree.data[n].null THEN UNSORTED_ID ELSE tree.data[n]._id : n \in DOMAIN tree.data}
        \cup (IF includeUnsorted THEN {UNSORTED_ID} ELSE {})
SourceItems == SelectSeq(raindrops, LAMBDA r : r.collectionId \in VisitedIds)
DistinctLinks ==
    \A i, j \in DOMAIN raindrops : raindrops[i].link = raindrops[j].link => i = j

\* C1: a call that fails at any point before its save completes leaves the
\* persisted blob exactly as it was when the call started; the blob is never
\* written while the call is still walking or deleting.
C1_FailedRunKeepsStore ==
    Running => storage = storageAtStart

\* a call with a stored previous state failed after it had built new entries
\* and changed the destination
C1_Witness ==
    /\ pc = "failed"
    /\ storageAtStart.present
    /\ newBookmarks # EmptyMap /\ newBookmarks # previousBookmarks
    /\ bookmarks # bookmarksAtStart
    /\ storage = storageAtStart

\* C2: the deletion pass removes no destination item that lives outside the
\* managed root.
C2_DeletionScoped ==
    [][pc = "delete" =>
        \A id \in DOMAIN bookmarks :
            ~IsUnder(bookmarks, id, BaseId) => id \in DOMAIN bookmarks']_vars

\* C3: a successful call that follows a successful call, with no change of the
\* source in between and no call that threw, returns added, updated and
\* deleted all zero.
C3_RerunStable ==
    (pc = "done" /\ lastOutcome = "ok" /\ delta.kind = "none" /\ faults = 0)
        => (stats.added = 0 /\ stats.updated = 0 /\ stats.deleted = 0)

Titled(n) == ~tree.data[n].null /\ tree.data[n].title # ""
AllTitled == \A n \in DOMAIN tree.data : tree.data[n].null \/ Titled(n)

\* the folder the items of node n go to, given a collectionFolders map
RECURSIVE FolderOf(_, _)
FolderOf(cf, n) ==
    IF n = 0 THEN BaseId
    ELSE IF Titled(n) THEN (IF Has(cf, IdOf(n)) THEN cf[IdOf(n)] ELSE NoParent)
    ELSE FolderOf(cf, ParentOf(n))

Count(seq, P(_)) == Len(SelectSeq(seq, P))

\* destination items carrying a URL
ItemsWith(bm, url) == {id \in DOMAIN bm : bm[id].url = url}

\* C4: after a successful call, one source item (of a listed collection, its
\* URL unique in the source) is removed; the next call, in which nothing
\* throws, returns deleted = 1, leaves no destination item with that URL,
\* issues no mutation on an item of another URL, and counts every remaining
\* source item as unchanged.
C4_RemovalConverges ==
    (/\ pc = "done" /\ lastOutcome = "ok" /\ faults = 0
     /\ delta.kind = "removed" /\ delta.from \in VisitedIds
     /\ DistinctLinks /\ \A i \in DOMAIN raindrops : raindrops[i].link # delta.link)
        => /\ stats.deleted = 1
           /\ ItemsWith(bookmarks, delta.link) = {}
           /\ \A id \in touched :
                id \in DOMAIN bookmarksAtStart =>
                    bookmarksAtStart[id].url \in {NoUrl, delta.link}
           /\ stats.unchanged = Len(SourceItems)

\* C5: after a successful call, one source item (its URL unique in the source)
\* moves to another listed collection, the unsorted one included, in a whole
\* tree (null root) whose collections all have titles; the next call, in which
\* nothing throws,
\* counts it as updated, and afterwards every destination item with its URL
\* lies in the folder the new collectionFolders map records for the new
\* collection.
C5_MoveFollowsCollection ==
    (/\ pc = "done" /\ lastOutcome = "ok" /\ faults = 0
     /\ delta.kind = "moved" /\ delta.from \in VisitedIds /\ delta.to \in VisitedIds
     /\ DistinctLinks /\ AllTitled /\ tree.data[1].null)
        => /\ stats.updated = 1
           /\ Has(collectionFolders, delta.to)
           /\ \A id \in ItemsWith(bookmarks, delta.link) :
                bookmarks[id].parentId = collectionFolders[delta.to]

FirstSync ==
    /\ ~storageAtStart.present
    /\ \A id \in DOMAIN bookmarksAtStart : bookmarksAtStart[id].parentId # BaseId

\* every titled collection has its folder, with its title, under the folder of
\* its parent collection, holding one item per source item of the collection
FoldersMirrorSource ==
    \A n \in DOMAIN tree.data :
        Titled(n) =>
            LET f == FolderOf(collectionFolders, n)
            IN  /\ f \in DOMAIN bookmarks
                /\ bookmarks[f].title = tree.data[n].title
                /\ bookmarks[f].url = NoUrl
                /\ bookmarks[f].parentId = FolderOf(collectionFolders, ParentOf(n))
                /\ \A u \in Urls, t \in Titles :
                    Cardinality({id \in DOMAIN bookmarks :
                                    bookmarks[id] = Node(f, t, u)})
                      = Count(raindrops, LAMBDA r :
                            /\ r.link = u /\ r.title = t
                            /\ \E m \in DOMAIN tree.data :
                                /\ IdOf(m) = r.collectionId
                                /\ FolderOf(collectionFolders, m) = f)

MainIds == {IdOf(n) : n \in DOMAIN tree.data}
MainItems == SelectSeq(raindrops, LAMBDA r : r.collectionId \in MainIds)
UnsortedOnly ==
    {u \in Urls :
        /\ includeUnsorted
        /\ \E i \in DOMAIN raindrops :
            raindrops[i].collectionId = UNSORTED_ID /\ raindrops[i].link = u
        /\ \A i \in DOMAIN raindrops :
            raindrops[i].link = u => raindrops[i].collectionId \notin MainIds}

C7_MutationFailureTolerated ==
    \A t \in thrown :
        t.call \in {"create", "update", "move", "remove"} =>
            /\ pc # "failed"
            /\ pc = "done" => ~Has(storage.syncState.bookmarks, t.link)

\* C8: when the listing of a collection throws, then at the end of the call
\* every destination item with a URL the previous state recorded in that
\* collection is still there, and the persisted state still has the entry.
C8_ListFailurePreserves ==
    (pc \in {"done", "failed"}) =>
        \A t \in thrown :
            t.call = "list" =>
                \A u \in DOMAIN previousBookmarks :
                    previousBookmarks[u].collectionId = t.collectionId =>
                        /\ ItemsWith(bookmarksAtStart, u) \subseteq DOMAIN bookmarks
                        /\ storage.present
                        /\ Has(storage.syncState.bookmarks, u)

\* C9: after a successful call, the link of one source item changes to a link
\* with the same normalized form; the next call, in which nothing throws,
\* adds nothing and deletes nothing.
C9_JoinOnNormalizedUrl ==
    (/\ pc = "done" /\ lastOutcome = "ok" /\ faults = 0
     /\ delta.kind = "relinked" /\ delta.from \in VisitedIds
     /\ normalizeUrl(delta.link) = normalizeUrl(delta.newLink)
     /\ DistinctLinks)
        => (stats.added = 0 /\ stats.deleted = 0)

\* the three steps of the normalisation, each stated on its own
Trimmed(u) ==
    LET idx == {i \in DOMAIN u : u[i] # SP}
    IN  IF idx = {} THEN <<>>
        ELSE SubSeq(u, CHOOSE i \in idx : \A j \in idx : i <= j,
                       CHOOSE i \in idx : \A j \in idx : i >= j)
OneSlashStripped(u) ==
    IF Len(u) > 0 /\ u[Len(u)] = SL THEN [i \in 1..(Len(u) - 1) |-> u[i]] ELSE u
Escaped(u) ==
    Flatten([i \in DOMAIN u |-> IF u[i] \in {BS, SL} THEN <<BS, u[i]>> ELSE <<u[i]>>])

\* C10: for every string over the alphabet, normalizeUrl is: trim the
\* whitespace at both ends, strip one trailing slash if there is one, then
\* prefix every backslash and every slash of the result with one backslash.
C10_NormalizeIsThreeSteps ==
    output # Pending => output = Escaped(OneSlashStripped(Trimmed(input)))

\* an input with leading whitespace, a backslash and two trailing slashes has
\* been normalised: one slash is stripped, the other and the backslash escaped
C10_Witness ==
    /\ input = <<SP, BS, SL, SL>>
    /\ output = <<BS, BS, BS, SL>>

\* how often a node of one side occurs in the lists of that side
Occurrences(seq, x) == Cardinality({i \in DOMAIN seq : seq[i] = x})
LeftOccurrences(n) ==
    Occurrences(syncDiff.onlyInLeft, n)
    + Cardinality({i \in DOMAIN syncDiff.inBothButDifferent :
                        syncDiff.inBothButDifferent[i].left = n})
    + Cardinality({i \in DOMAIN syncDiff.unchanged : syncDiff.unchanged[i].left = n})
RightOccurrences(n) ==
    Occurrences(syncDiff.onlyInRight, n)
    + Cardinality({i \in DOMAIN syncDiff.inBothButDifferent :
                        syncDiff.inBothButDifferent[i].right = n})
    + Cardinality({i \in DOMAIN syncDiff.unchanged : syncDiff.unchanged[i].right = n})
DuplicateKey(t) ==
    \E m, n \in DOMAIN t.data : m # n /\ keyOf(t, m) = keyOf(t, n)

\* C11: once the diff is computed, every node of the left tree occurs exactly
\* once in onlyInLeft, inBothButDifferent (as left) and unchanged (as left)
\* taken together, every node of the right tree exactly once in onlyInRight,
\* inBothButDifferent (as right) and unchanged (as right), the lists hold
\* nothing else, and no pair is in both pair lists; trees with a key that
\* occurs more than once are among the trees compared.
C11_DiffComplete ==
    diffPc = "done" =>
        /\ \A n \in DOMAIN left.data : LeftOccurrences(n) = 1
        /\ \A n \in DOMAIN right.data : RightOccurrences(n) = 1
        /\ Len(syncDiff.onlyInLeft) + Len(syncDiff.inBothButDifferent)
             + Len(syncDiff.unchanged) = Len(left.data)
        /\ Len(syncDiff.onlyInRight) + Len(syncDiff.inBothButDifferent)
             + Len(syncDiff.unchanged) = Len(right.data)
        /\ \A i \in DOMAIN syncDiff.inBothButDifferent :
            \A j \in DOMAIN syncDiff.unchanged :
                syncDiff.inBothButDifferent[i] # syncDiff.unchanged[j]

\* a diff was computed of a left tree in which a key occurs twice, and each of
\* the four lists has an entry
C11_Witness ==
    /\ diffPc = "done"
    /\ DuplicateKey(left)
    /\ syncDiff.onlyInLeft # <<>> /\ syncDiff.onlyInRight # <<>>
    /\ syncDiff.inBothButDifferent # <<>> /\ syncDiff.unchanged # <<>>

\* unchanged pairs every node of the left tree with the same node of the clone
UnchangedCoversAll ==
    /\ Len(syncDiff.unchanged) = Len(left.data)
    /\ \A n \in DOMAIN left.data :
        \E i \in DOMAIN syncDiff.unchanged :
            syncDiff.unchanged[i] = [left |-> n, right |-> n]

IdsOf(list) == {list[k].id : k \in DOMAIN list}
ElementOf(list, i) == list[CHOOSE k \in DOMAIN list : list[k].id = i]

\* some parentId is neither an id of the list nor the root sentinel
Unresolved(list) ==
    \E k \in DOMAIN list : list[k].parentId \notin IdsOf(list) \cup {NullId}

\* following parentIds from the element with id i for at most k steps ends at
\* the root sentinel
RECURSIVE ReachesRoot(_, _, _)
ReachesRoot(list, i, k) ==
    IF i = NullId THEN TRUE
    ELSE IF k = 0 \/ i \notin IdsOf(list) THEN FALSE
    ELSE ReachesRoot(list, ElementOf(list, i).parentId, k - 1)

Cyclic(list) ==
    /\ ~Unresolved(list)
    /\ \E i \in IdsOf(list) : ~ReachesRoot(list, i, Len(list))
WellFormed(list) == ~Unresolved(list) /\ ~Cyclic(list)

\* the depth of the element with id i below the synthetic root, by the list
RECURSIVE DepthOf(_, _)
DepthOf(list, i) ==
    IF i = NullId THEN 0 ELSE 1 + DepthOf(list, ElementOf(list, i).parentId)

\* C13: for a flat list with well-formed parent links createTree does not
\* throw, and in the tree it returns a walk from the root visits the node of
\* every list element exactly once, and the full path of every node is as
\* long as the node is deep below the synthetic root.
C13_TreeOfWellFormedList ==
    WellFormed(flatList) =>
        /\ treePc # "MalformedTreeError"
        /\ treePc = "done" =>
            /\ \A k \in DOMAIN flatList :
                /\ Occurrences(flattenTree(treeNode, 1), k + 1) = 1
                /\ treeNode.data[k + 1] = flatList[k]
                /\ Len(getFullPath(treeNode, k + 1)) = DepthOf(flatList, flatList[k].id)
            /\ Len(flattenTree(treeNode, 1)) = Len(flatList) + 1

\* createTree returned the tree of a chain of three nodes that the list gives
\* child first
C13_Witness ==
    /\ treePc = "done"
    /\ Len(flatList) = 3
    /\ flatList[1].parentId = flatList[2].id
    /\ flatList[2].parentId = flatList[3].id
    /\ flatList[3].parentId = NullId
    /\ Len(getFullPath(treeNode, 2)) = 3

PreviousFolders == loadSyncState(storageAtStart).collectionFolders

\* C15: when the walk resolves the folder of a titled collection whose id the
\* previous SyncState maps to a destination folder that still exists, it
\* takes that folder: no folder is created, and the new collectionFolders
\* map records the same folder id for the collection.
C15_FolderReuse ==
    [][(/\ pc = "resolve" /\ pc' = "list" /\ FrameTitled
        /\ Has(PreviousFolders, FrameId)
        /\ PreviousFolders[FrameId] \in DOMAIN bookmarks
        /\ bookmarks[PreviousFolders[FrameId]].url = NoUrl)
        => /\ DOMAIN bookmarks' = DOMAIN bookmarks
           /\ folder' = PreviousFolders[FrameId]
           /\ Has(collectionFolders', FrameId)
           /\ collectionFolders'[FrameId] = PreviousFolders[FrameId]]_vars

\* C16: in one call the store is read exactly once, and before any mutation
\* of the destination; a bookmark is removed only in the deletion pass, which
\* starts when the walk and the unsorted pass are over and is followed by no
\* step of either; the store is written at most once, when the deletion pass
\* has visited every key; and a call that has failed does nothing more.
C16_PhaseOrder ==
    /\ []((pc \notin {"idle", "load"} => reads = 1)
          /\ (pc = "done" => writes = 1)
          /\ (pc \notin {"idle", "done", "failed"} => writes = 0))
    /\ [][/\ bookmarks' # bookmarks => reads = 1
          /\ reads' > reads => (pc = "load" /\ reads = 0 /\ bookmarks = bookmarksAtStart)
          /\ (\E id \in DOMAIN bookmarks : id \notin DOMAIN bookmarks')
                => (pc = "delete" /\ stack = <<>>)
          /\ pc = "delete" => pc' \in {"delete", "done", "failed"}
          /\ (storage' # storage \/ writes' > writes)
                => (pc = "delete" /\ toDelete = <<>> /\ writes = 0)
          /\ pc = "failed"
                => (pc' = "idle" /\ bookmarks' = bookmarks /\ storage' = storage)]_vars

\* a call with an unsorted pass returned after one read and one write, having
\* created an item and removed another
C16_Witness ==
    /\ pc = "done" /\ includeUnsorted
    /\ reads = 1 /\ writes = 1
    /\ stats.added > 0 /\ stats.deleted > 0
    /\ storage # storageAtStart

\* C19: a step of the unsorted pass on an item whose URL is already a key of
\* the new bookmarks map changes neither the destination nor any counter of
\* the Stats nor the new bookmarks map: the entry of the main walk stays.
C19_UnsortedGuardSkips ==
    [][(/\ pc = "uitems" /\ pending # <<>>
        /\ Has(newBookmarks, Head(pending).link))
        => /\ bookmarks' = bookmarks /\ nextId' = nextId
           /\ stats' = stats
           /\ newBookmarks' = newBookmarks
           /\ touched' = touched]_vars

\* the unsorted pass is over, nothing threw, and the new map still has, for
\* the URL of an unsorted item, the entry the main walk stored for an item of
\* a collection of the tree
C19_Witness ==
    /\ pc = "delete" /\ includeUnsorted /\ thrown = {}
    /\ \E i \in DOMAIN raindrops :
        /\ raindrops[i].collectionId = UNSORTED_ID
        /\ Has(newBookmarks, raindrops[i].link)
        /\ newBookmarks[raindrops[i].link].collectionId # UNSORTED_ID
        /\ stats.added + stats.updated + stats.unchanged < Len(SourceItems)

\* the source items of listed collections that the previous SyncState records,
\* under their URL, with their title and their collection id
RecordedAsIs ==
    SelectSeq(raindrops, LAMBDA r :
        /\ r.collectionId \in VisitedIds
        /\ Has(previousBookmarks, r.link)
        /\ previousBookmarks[r.link].title = r.title
        /\ previousBookmarks[r.link].collectionId = r.collectionId)

\* C20: when a call in which nothing threw returns, every source item that
\* the previous SyncState records as it is has been counted as unchanged, and
\* the call has issued no create, update, move or remove on a destination
\* item with the URL of such an item.
C20_UnchangedIsLeftAlone ==
    (pc = "done" /\ thrown = {})
        => /\ stats.unchanged >= Len(RecordedAsIs)
           /\ \A i \in DOMAIN RecordedAsIs :
                \A id \in touched :
                    /\ id \in DOMAIN bookmarks => bookmarks[id].url # RecordedAsIs[i].link
                    /\ id \in DOMAIN bookmarksAtStart
                        => bookmarksAtStart[id].url # RecordedAsIs[i].link

\* the destination items (not folders) in a folder
ItemsIn(bm, f) == {id \in DOMAIN bm : bm[id].parentId = f /\ bm[id].url # NoUrl}

\* full resync: once a child's folder create is issued, the call for its
\* parent has created every item of the parent's collection in the parent's
\* folder; once the call for the child is made, its folder lies in the
\* parent's folder
FullParentFirst ==
    \A n \in DOMAIN tasks :
        (tasks[n].pc # "none" /\ ParentOf(n) # 0) =>
            LET p == tasks[ParentOf(n)]
            IN  /\ p.pc = "resolved" /\ p.pending = <<>>
                /\ p.baseFolder \in DOMAIN bookmarks
                /\ Cardinality(ItemsIn(bookmarks, p.baseFolder))
                     = Len(getAllRaindrops(IdOf(ParentOf(n))))
                /\ tasks[n].pc # "folder" =>
                    /\ tasks[n].baseFolder \in DOMAIN bookmarks
                    /\ bookmarks[tasks[n].baseFolder].parentId = p.baseFolder
                    /\ ItemsIn(bookmarks, tasks[n].baseFolder) \subseteq
                         {id \in DOMAIN bookmarks :
                            \E i \in DOMAIN raindrops :
                                /\ raindrops[i].collectionId = IdOf(n)
                                /\ raindrops[i].link = bookmarks[id].url}

\* incremental walk: the children of a collection are put on the stack when
\* its folder is resolved and all its raindrops are processed, each child
\* with that folder as parent; the folder of a collection is its parent's
\* folder or a folder created in it; an item is created in the folder of the
\* collection being processed
IncrementalParentFirst ==
    /\ (pc = "items" /\ stack' # stack /\ pc' # "idle") =>
        /\ pending = <<>> /\ folder \in DOMAIN bookmarks
        /\ \A k \in 1..(Len(stack') - Len(stack) + 1) :
            /\ ParentOf(stack'[k].node) = Head(stack).node
            /\ stack'[k].parentFolder = folder
    /\ (pc = "resolve" /\ pc' = "list") =>
        /\ folder' \in DOMAIN bookmarks'
        /\ folder' = Head(stack).parentFolder
            \/ /\ folder' \notin DOMAIN bookmarks
               /\ bookmarks'[folder'].parentId = Head(stack).parentFolder
        /\ ParentOf(Head(stack).node) # 0 =>
            Head(stack).parentFolder = FolderOf(collectionFolders, ParentOf(Head(stack).node))
    /\ (pc = "items" /\ pc' = "items") =>
        \A id \in DOMAIN bookmarks' :
            id \notin DOMAIN bookmarks => bookmarks'[id].parentId = folder

\* C17: parent before children, in the incremental walk and in the full
\* resync: the folder of a collection is resolved or created and all the
\* item mutations of the collection are issued before any of its child
\* collections is processed, and every child is processed with the folder of
\* its parent as destination parent.
C17_ParentBeforeChildren ==
    /\ [](fullPc # "off" => FullParentFirst)
    /\ [][fullPc = "off" => IncrementalParentFirst]_vars

\* the full resync has made the call for a collection nested two deep, the
\* collection and its parent each holding an item
C17_Witness ==
    /\ fullPc = "running"
    /\ \E n \in DOMAIN tasks :
        /\ ParentOf(n) # 0 /\ ParentOf(ParentOf(n)) # 0
        /\ tasks[n].pc = "resolved"
        /\ ItemsIn(bookmarks, tasks[n].baseFolder) # {}
        /\ ItemsIn(bookmarks, tasks[ParentOf(n)].baseFolder) # {}

\* the nodes of opts.tree below node n
RECURSIVE IsBelow(_, _)
IsBelow(m, n) == ParentOf(m) # 0 /\ (ParentOf(m) = n \/ IsBelow(ParentOf(m), n))

\* C18: when the promise of the call for a node has resolved, the folder of
\* every collection below the node is created and the call for it has
\* resolved too, all its items created.
C18_SubtreeJoined ==
    \A n \in DOMAIN tasks :
        tasks[n].pc = "resolved" =>
            \A m \in DOMAIN tasks :
                IsBelow(m, n) =>
                    /\ tasks[m].pc = "resolved"
                    /\ tasks[m].baseFolder \in DOMAIN bookmarks
                    /\ Cardinality(ItemsIn(bookmarks, tasks[m].baseFolder))
                         = Len(getAllRaindrops(IdOf(m)))

\* the items and the folders below the managed root
ManagedItems ==
    {id \in DOMAIN bookmarks :
        id # BaseId /\ IsUnder(bookmarks, id, BaseId) /\ bookmarks[id].url # NoUrl}
ManagedFolders ==
    {id \in DOMAIN bookmarks :
        id # BaseId /\ IsUnder(bookmarks, id, BaseId) /\ bookmarks[id].url = NoUrl}

\* the call that ended before this one failed after it had created something
\* in the destination
FailedAfterMutations ==
    /\ lastOutcome = "failed"
    /\ \E id \in DOMAIN bookmarksAtStart : id > UserItemId

\* C21: a call that failed after issuing destination mutations is followed,
\* on the same source (its links pairwise distinct), by a call in which
\* nothing throws; after the second call the managed subtree holds exactly
\* one item per source item and exactly one folder per titled collection.
C21_RerunConverges ==
    (pc = "done" /\ FailedAfterMutations /\ thrown = {} /\ DistinctLinks)
        => /\ \A u \in Urls :
                Cardinality({id \in ManagedItems : bookmarks[id].url = u})
                    = Count(SourceItems, LAMBDA r : r.link = u)
           /\ \A n \in DOMAIN tree.data :
                Titled(n) =>
                    Cardinality({id \in ManagedFolders :
                                    bookmarks[id].title = tree.data[n].title}) = 1

\* the URLs of destination items, and the URLs of the items the call lists
UrlsOf(ids) == {bookmarks[id].url : id \in ids}
SourceUrls == {SourceItems[i].link : i \in DOMAIN SourceItems}

\* C26: from no stored state and an empty managed root, after any sequence of
\* calls that succeeded with no external call throwing, the source edited in
\* between, the URLs of the items under the managed root are the keys of the
\* persisted bookmarks map, and these are the URLs of the items the last call
\* listed.
C26_StateAgreesWithDestination ==
    (pc = "done" /\ lastOutcome \in {"none", "ok"} /\ faults = 0)
        => /\ UrlsOf(ManagedItems) = DOMAIN loadSyncState(storage).bookmarks
           /\ DOMAIN loadSyncState(storage).bookmarks = SourceUrls

\* the second call succeeded after the only source item was removed: the
\* store had its URL when the call started, and now neither the managed root
\* nor the stored map has it
C26_Witness ==
    /\ pc = "done" /\ lastOutcome = "ok" /\ faults = 0
    /\ delta.kind = "removed" /\ raindrops = <<>>
    /\ Has(loadSyncState(storageAtStart).bookmarks, delta.link)
    /\ ManagedItems = {}
    /\ loadSyncState(storage).bookmarks = EmptyMap

\* the depth of node k of the browser's tree below its root
RECURSIVE ChromeDepth(_)
ChromeDepth(k) ==
    IF ~Truthy(chromeTree[k].parentId) THEN 0
    ELSE 1 + ChromeDepth(chromeTree[k].parentId)

\* the list of the loop holds the data of every node of the browser's tree
\* exactly once, each parent before its children, level by level
FlattenedBreadthFirst ==
    /\ Len(dataList) = Len(chromeTree)
    /\ \A k \in DOMAIN chromeTree :
        Cardinality({i \in DOMAIN dataList :
                        dataList[i] = ChromeBookmarkNodeData(chromeTree[k])}) = 1
    /\ \A i, j \in DOMAIN dataList :
        /\ dataList[j].parentId = dataList[i].id => i < j
        /\ i < j => ChromeDepth(dataList[i].id) <= ChromeDepth(dataList[j].id)

\* the node returned holds the browser's root and hangs under the synthetic
\* root alone; the nodes below it are the other nodes of the browser's tree,
\* each once, each under the node of its parent
ReturnsChromeRoot ==
    /\ realRoot # 0
    /\ treeNode.data[realRoot].id = chromeTree[1].id
    /\ treeNode.children[1] = <<realRoot>>
    /\ LET below == flattenTree(treeNode, realRoot)
       IN  /\ Len(below) = Len(chromeTree)
           /\ \A k \in DOMAIN chromeTree :
                \E n \in DOMAIN treeNode.data :
                    /\ Occurrences(below, n) = 1
                    /\ treeNode.data[n].id = k
                    /\ k # 1 => treeNode.data[treeNode.parent[n]].id
                                    = chromeTree[k].parentId

\* C22: createTreeFromChromeBookmarks flattens the browser's tree breadth
\* first into a list that holds every node exactly once, each parent before
\* its children; its loop ends; it does not throw, and it returns the tree
\* node of the browser's root, the one child of the synthetic root, with
\* exactly the other nodes below it.
C22_FlattenReturnsChromeRoot ==
    /\ [](/\ flattenPc \in {"createTree", "returned"} => FlattenedBreadthFirst
          /\ flattenPc = "returned" => ReturnsChromeRoot
          /\ flattenPc # "rejected")
    /\ (flattenPc = "flatten" ~> (flattenPc = "flatten" /\ Len(queue) = 0))
    /\ (flattenPc = "getTree" ~> flattenPc = "returned")

\* the function has returned the root of a tree of four nodes in which the
\* second child of the root comes before the child of its first child
C22_Witness ==
    /\ flattenPc = "returned" /\ ReturnsChromeRoot
    /\ Len(dataList) = 4
    /\ dataList[2].parentId = chromeTree[1].id
    /\ dataList[3].parentId = chromeTree[1].id
    /\ dataList[4].parentId = dataList[2].id
    /\ dataList[4].id < dataList[2].id

\* C23: for every sequence of start and stop calls, once
\* stopBrowserChangeListener has returned (and until the next start) no
\* bookmark event invokes a callback passed to a start before.
C23_StoppedListenerIsSilent ==
    listening = "stopped" => invoked = {}

\* C25: loadSyncState returns null exactly when nothing is stored under the
\* key; after saveSyncState(s) it returns the bookmarks entries of s, the
\* collectionFolders entries of s under integer keys (-1 included), and the
\* lastSync instant of s.
C25_LoadAfterSaveRoundTrip ==
    loaded.called =>
        /\ loaded.null <=> ~storage.present
        /\ storage.present =>
            /\ loaded.state.bookmarks = syncState.bookmarks
            /\ DOMAIN loaded.state.collectionFolders \subseteq Int
            /\ loaded.state.collectionFolders = syncState.collectionFolders
            /\ loaded.state.lastSync = syncState.lastSync

\* a state with an entry per URL and a folder for the unsorted collection and
\* for collection 1 has been saved and loaded
C25_Witness ==
    /\ loaded.called /\ ~loaded.null
    /\ DOMAIN loaded.state.bookmarks = Urls
    /\ DOMAIN loaded.state.collectionFolders = {UNSORTED_ID, 1}
    /\ loaded.state.collectionFolders[UNSORTED_ID] # loaded.state.collectionFolders[1]
    /\ loaded.state = syncState

\* the maps a call has built are the maps the store holds
PersistedFrom(new, cf) ==
    /\ loadSyncState(storage).bookmarks = new
    /\ loadSyncState(storage).collectionFolders = cf

\* C24: with two calls in flight, every write of the store is the save of
\* one call and leaves under the key exactly the bookmarks map, the
\* collectionFolders map and the lastSync of that call; so when both calls
\* have ended, what is stored is what a single call built, never entries of
\* both.
C24_WholeBlobReplaced ==
    /\ []((Settled(pc) /\ Settled(parked.pc) /\ storage.present) =>
            \/ pc = "done" /\ PersistedFrom(newBookmarks, collectionFolders)
            \/ parked.pc = "done"
                /\ PersistedFrom(parked.newBookmarks, parked.collectionFolders))
    /\ [][storage' # storage =>
            /\ pc = "delete" /\ pc' = "done"
            /\ loadSyncState(storage') =
                [bookmarks |-> newBookmarks, collectionFolders |-> collectionFolders,
                 lastSync |-> clock]]_vars

\* both calls have saved, the first with an entry the second does not have
\* (its listing of the unsorted collection threw) and each with folders of
\* its own; the store holds the maps of the second
C24_Witness ==
    /\ pc = "done" /\ parked.pc = "done"
    /\ parked.newBookmarks # EmptyMap /\ newBookmarks = EmptyMap
    /\ parked.collectionFolders # collectionFolders
    /\ storage.present
    /\ PersistedFrom(newBookmarks, collectionFolders)
    /\ loadSyncState(storage).lastSync > 1

====
